---------------------------- MODULE Spec2Model ----------------------------
(***************************************************************************)
(* A model of the rendering engine of the path tracer:                     *)
(*   - the block round-robin worker render_blocks_round_robin              *)
(*     (src/src/RenderUtils.cpp), one process per worker thread, with the  *)
(*     shared framebuffer, the atomic progress counter and the per-thread  *)
(*     random generator of _random_double (src/include/Utils.hpp);         *)
(*   - the intersection routines Sphere::hit, Plane::hit,                  *)
(*     Parallelogram::hit (src/include/Object.hpp) and Scene::hit          *)
(*     (src/include/Scene.hpp) over IEEE-like numbers (exact rationals     *)
(*     extended with +Inf, -Inf and NaN).                                  *)
(***************************************************************************)
EXTENDS Integers, Sequences, FiniteSets, TLC

(***************************************************************************)
(* Bounds of the model.                                                    *)
(***************************************************************************)
MaxThreads == 2
MaxBlockSize == 2
MaxWidth == 2
MaxHeight == 3
MaxSamples == 1
SeedRange == 2
RayColorDraws == 1

VARIABLES
    \* ---- render_blocks_round_robin: parameters of the call
    num_threads, block_size, image_width, image_height, samples_per_pixel,
    \* ---- render_blocks_round_robin: locals of each worker
    pc, block_idx, row_j, col_i,
    \* ---- shared objects
    pixel_buffer,       \* std::vector<Pixel>& pixel_buffer
    completed_lines,    \* std::atomic<int>& completed_lines
    cerr,               \* std::cerr: the <<done, total>> of each progress line
    \* ---- _random_double: static objects
    generator,          \* std::mt19937 generator, one per generator slot
    \* ---- history (ghost) variables
    writes,             \* idx -> sequence of <<thread, i, j>> stored at idx
    oob_write,          \* TRUE once an index outside the buffer was used
    rows_done,          \* thread -> sequence of <<block, j>> it incremented for
    seed,               \* slot -> the seed its generator was constructed with
    rng_access,         \* static object -> set of threads that used it
    \* ---- Scene and one call of Scene::hit on it
    objects,            \* std::vector<shared_ptr<SceneBaseObject>> objects
    call,               \* the arguments of the last call: ray, t_min, t_max
    ret,                \* what that call returned
    rec,                \* the caller's HitRecord after that call
    \* ---- the materials, and the samples of one pixel
    materials,          \* mat_ptr -> the Material object it points to
    background,         \* const Color& bg_color
    max_depth,          \* int max_depth
    sample_s,           \* the loop counter s of the sample loop
    pixel_color,        \* Color pixel_color, the sum of the samples so far
    pixel,              \* the Pixel stored for this pixel, once stored
    shade,              \* the last sample: its ray, its random points, its colour;
                        \* and (history) what the pixel's camera rays hit first
    \* ---- SceneXMLParser: its members
    m_sceneData, m_currentParentTag, m_currentObject, m_currentCamera,
    m_currentGlobal, m_currentMaterial,
    \* ---- history (ghost) variables of the parse
    tags_read,          \* how many tags parseString has handed on
    open_elements,      \* the elements still open, innermost last, each with
                        \* the property tags read while it was the innermost
    closed_objects,     \* for each </object> read: the property tags of its element
    late_property,      \* TRUE once a property tag followed the end of an inner
                        \* element, or an object started inside an object
    \* ---- render_omp: the loop `omp for schedule(dynamic, 32)`
    omp_next,           \* the first iteration no thread has been given yet
    omp_j,              \* thread -> its loop variable j
    omp_end             \* thread -> the end (exclusive) of the chunk it holds

paramVars == <<num_threads, block_size, image_width, image_height, samples_per_pixel>>
workerVars == <<pc, block_idx, row_j, col_i>>
sharedVars == <<pixel_buffer, completed_lines, cerr>>
rngVars == <<generator, seed, rng_access>>
ghostVars == <<writes, oob_write, rows_done>>
renderVars == <<paramVars, workerVars, sharedVars, rngVars, ghostVars>>

hitVars == <<objects, call, ret, rec>>

shadeVars == <<materials, background, max_depth, sample_s, pixel_color, pixel, shade>>

parserVars == <<m_sceneData, m_currentParentTag, m_currentObject, m_currentCamera,
                m_currentGlobal, m_currentMaterial>>
parseVars == <<parserVars, tags_read, open_elements, closed_objects, late_property>>

ompVars == <<omp_next, omp_j, omp_end>>

vars == <<renderVars, hitVars, shadeVars, parseVars, ompVars>>

ThreadIds == 0 .. (MaxThreads - 1)
Workers == 0 .. (num_threads - 1)
Uninit == -1
Unwritten == <<"unwritten">>

Max(a, b) == IF a > b THEN a ELSE b

(***************************************************************************)
(* _random_double: the generator and the distribution.                     *)
(***************************************************************************)
\* std::mt19937 constructed from a seed: a deterministic function of the seed.
\* The Mersenne twister is abstracted as a full-period congruential
\* generator over 0..7.
MtSeed(s) == s % 8
MtNext(g) == (5 * g + 3) % 8

\* omp_get_thread_num() as called from a std::thread worker, i.e. outside any
\* OpenMP parallel region: the OpenMP runtime returns 0.
omp_get_thread_num(t) == 0

\* `static thread_local std::mt19937 generator`: one object per thread.
GeneratorSlot_shared(t) == 0
GeneratorSlot(t) == t

\* `static std::uniform_real_distribution<double> distribution`: no
\* thread_local, so a single object for the whole program.
DistributionSlot(t) == 0

\* The static objects one call of _random_double by thread t touches.
RandomObjects(t) ==
    { <<"generator", GeneratorSlot(t)>>, <<"distribution", DistributionSlot(t)>> }

\* One call distribution(generator): advances the generator, returns the value
\* (the numerator of a real in [0,1) over 8).
RandomDouble(g) == [gen |-> MtNext(g), val |-> MtNext(g)]

\* The generator after n calls of random_double, and the value of the n-th
\* call, from generator state g.
RECURSIVE MtAdvance(_, _)
MtAdvance(g, n) == IF n <= 0 THEN g ELSE MtNext(MtAdvance(g, n - 1))
DrawAt(g, n) == RandomDouble(MtAdvance(g, n - 1)).val

(***************************************************************************)
(* render_blocks_round_robin: the sample loop of one pixel.                *)
(***************************************************************************)
\* k successive draws from generator state g: [gen, vals].
Draws(g, k) ==
    [gen |-> MtAdvance(g, k), vals |-> [n \in 1 .. k |-> DrawAt(g, n)]]

\* One iteration of the sample loop for pixel (i, j): the two jitter draws of
\* u and v, then ray_color, which draws RayColorDraws numbers while it
\* scatters.  The sample is the triple (pixel, jitter, draws of ray_color).
DrawsPerSample == 2 + RayColorDraws
OneSample(g, i, j) ==
    [gen |-> MtAdvance(g, DrawsPerSample),
     sample |-> <<i, j, DrawAt(g, 1), DrawAt(g, 2),
                  Draws(MtAdvance(g, 2), RayColorDraws).vals>>]

\* for (s = 0; s < samples_per_pixel; ++s): the samples of pixel (i, j) in
\* order from iteration s on, and the generator afterwards.
SampleLoop(g, i, j, s) ==
    [gen |-> MtAdvance(g, (samples_per_pixel - s) * DrawsPerSample),
     samples |-> [n \in 1 .. (samples_per_pixel - s) |->
                     OneSample(MtAdvance(g, (n - 1) * DrawsPerSample), i, j).sample]]

(***************************************************************************)
(* render_blocks_round_robin: blocks, rows and indices.                    *)
(***************************************************************************)
total_blocks == (image_height + block_size - 1) \div block_size

BlockStartJ_bottomUp(b) == b * block_size + block_size - 1
BlockStartJ(b) == image_height - 1 - b * block_size
BlockEndJ_noClamp(b) == BlockStartJ(b) - block_size + 1
BlockEndJ(b) == Max(0, BlockStartJ(b) - block_size + 1)

\* size_t idx = (image_height - 1 - j) * image_width + i
PixelIndex_bottomFirst(i, j) == j * image_width + i
PixelIndex(i, j) == (image_height - 1 - j) * image_width + i

\* block_idx += num_threads
NextBlock_plusOne(b) == b + 1
NextBlock(b) == b + num_threads

\* The three loop headers, evaluated from block b and row jj until the next
\* loop body (a pixel to render, or the increment of a row without pixels) or
\* the end of the function.
RECURSIVE LoopHeaders_offByOne(_, _)
LoopHeaders_offByOne(b, jj) ==
    IF b < total_blocks
    THEN IF jj > BlockEndJ(b)
         THEN [pc |-> IF 0 < image_width THEN "pixel" ELSE "add",
               block_idx |-> b, row_j |-> jj, col_i |-> 0]
         ELSE LoopHeaders_offByOne(NextBlock(b), BlockStartJ(NextBlock(b)))
    ELSE [pc |-> "done", block_idx |-> 0, row_j |-> 0, col_i |-> 0]

RECURSIVE LoopHeaders(_, _)
LoopHeaders(b, jj) ==
    IF b < total_blocks
    THEN IF jj >= BlockEndJ(b)
         THEN [pc |-> IF 0 < image_width THEN "pixel" ELSE "add",
               block_idx |-> b, row_j |-> jj, col_i |-> 0]
         ELSE LoopHeaders(NextBlock(b), BlockStartJ(NextBlock(b)))
    ELSE [pc |-> "done", block_idx |-> 0, row_j |-> 0, col_i |-> 0]

MoveTo(t, pos) ==
    /\ pc' = [pc EXCEPT ![t] = pos.pc]
    /\ block_idx' = [block_idx EXCEPT ![t] = pos.block_idx]
    /\ row_j' = [row_j EXCEPT ![t] = pos.row_j]
    /\ col_i' = [col_i EXCEPT ![t] = pos.col_i]

(***************************************************************************)
(* double.  A value is an exact rational <<n, d>> with d > 0 in lowest      *)
(* terms, or +Inf = <<1, 0>>, -Inf = <<-1, 0>>, NaN = <<0, 0>>.  Arithmetic  *)
(* and comparisons follow IEEE 754 on the special values (every comparison  *)
(* with NaN is false); rounding, and the sign of zero, are not modelled.    *)
(***************************************************************************)
RECURSIVE Gcd(_, _)
Gcd(a, b) == IF b = 0 THEN a ELSE Gcd(b, a % b)
AbsInt(n) == IF n < 0 THEN -n ELSE n
Sgn(n) == IF n > 0 THEN 1 ELSE IF n < 0 THEN -1 ELSE 0

Norm(n, d) ==
    IF d = 0 THEN <<Sgn(n), 0>>
    ELSE LET g == Gcd(AbsInt(n), AbsInt(d))
         IN  <<(Sgn(d) * n) \div g, (Sgn(d) * d) \div g>>

NaN == <<0, 0>>
infinity == <<1, 0>>
Num(n) == <<n, 1>>
Frac(n, d) == Norm(n, d)

Neg(a) == <<-a[1], a[2]>>
Add(a, b) ==
    IF a[2] = 0 /\ b[2] = 0 THEN (IF a = b THEN a ELSE NaN)
    ELSE Norm(a[1] * b[2] + b[1] * a[2], a[2] * b[2])
Sub(a, b) == Add(a, Neg(b))
Mul(a, b) == Norm(a[1] * b[1], a[2] * b[2])
Inv(a) == Norm(a[2], a[1])
Div(a, b) == Mul(a, Inv(b))
AbsNum(a) == <<AbsInt(a[1]), a[2]>>

\* a < b
Lt(a, b) ==
    IF a = NaN \/ b = NaN THEN FALSE
    ELSE IF a[2] = 0 /\ b[2] = 0 THEN a[1] < b[1]
    ELSE IF a[2] = 0 THEN a[1] < 0
    ELSE IF b[2] = 0 THEN b[1] > 0
    ELSE IF a[2] <= b[2] THEN a[1] < -((-(b[1] * a[2])) \div b[2])
    ELSE (a[1] * b[2]) \div a[2] < b[1]
\* a <= b
Le(a, b) == a # NaN /\ b # NaN /\ (a = b \/ Lt(a, b))

\* sqrt: exact on squares of rationals, rounded down to a multiple of 1/d
\* elsewhere; NaN below zero.
ISqrt(n) == CHOOSE k \in 0 .. n : k * k <= n /\ (k + 1) * (k + 1) > n
Sqrt(a) ==
    IF a = NaN \/ a[1] < 0 THEN NaN
    ELSE IF a[2] = 0 THEN infinity
    ELSE Norm(ISqrt(a[1] * a[2]), a[2])

(***************************************************************************)
(* Vec3 and Ray.                                                           *)
(***************************************************************************)
Vec3(x, y, z) == <<Num(x), Num(y), Num(z)>>
VNeg(v) == <<Neg(v[1]), Neg(v[2]), Neg(v[3])>>
VAdd(u, v) == <<Add(u[1], v[1]), Add(u[2], v[2]), Add(u[3], v[3])>>
VSub(u, v) == <<Sub(u[1], v[1]), Sub(u[2], v[2]), Sub(u[3], v[3])>>
VScale(t, v) == <<Mul(t, v[1]), Mul(t, v[2]), Mul(t, v[3])>>
\* operator/(Vec3 v, double t): (1/t) * v
VDiv(v, t) == VScale(Div(Num(1), t), v)
dot(u, v) == Add(Add(Mul(u[1], v[1]), Mul(u[2], v[2])), Mul(u[3], v[3]))
cross(u, v) ==
    << Sub(Mul(u[2], v[3]), Mul(u[3], v[2])),
       Sub(Mul(u[3], v[1]), Mul(u[1], v[3])),
       Sub(Mul(u[1], v[2]), Mul(u[2], v[1])) >>
length_squared(v) == dot(v, v)
length(v) == Sqrt(length_squared(v))
unit_vector(v) == VDiv(v, length(v))

Ray(origin, direction) == [orig |-> origin, dir |-> direction]
RayAt(r, t) == VAdd(r.orig, VScale(t, r.dir))

(***************************************************************************)
(* HitRecord.                                                              *)
(***************************************************************************)
\* `HitRecord rec;`: p and normal are zero vectors, mat_ptr is null, t and
\* front_face hold no value yet.
NoValue == <<"indeterminate">>
NewHitRecord ==
    [p |-> Vec3(0, 0, 0), normal |-> Vec3(0, 0, 0), t |-> NoValue,
     front_face |-> NoValue, mat_ptr |-> "null"]

set_face_normal(h, r, outward_normal) ==
    LET ff == Lt(dot(r.dir, outward_normal), Num(0))
    IN  [h EXCEPT !.front_face = ff,
                  !.normal = IF ff THEN outward_normal ELSE VNeg(outward_normal)]

(***************************************************************************)
(* The primitives: constructors and hit.                                   *)
(***************************************************************************)
Sphere(cen, r, m) == [kind |-> "sphere", center |-> cen, radius |-> r, mat_ptr |-> m]

Plane(p, n, m) ==
    [kind |-> "plane", point |-> p, normal |-> unit_vector(n), mat_ptr |-> m]

Parallelogram(Q, u, v, m) ==
    LET n == cross(u, v)
        normal == unit_vector(n)
    IN  [kind |-> "parallelogram", Q |-> Q, u |-> u, v |-> v, mat_ptr |-> m,
         normal |-> normal, D |-> dot(normal, Q), w |-> VDiv(n, dot(n, n))]

SceneOf(objs) == [kind |-> "scene", objects |-> objs]

Parallelepiped_fiveFaces(origin, u, v, w, m) ==
    SceneOf(<< Parallelogram(origin, u, v, m),
               Parallelogram(VAdd(origin, v), u, w, m),
               Parallelogram(origin, u, w, m),
               Parallelogram(VAdd(origin, u), v, w, m),
               Parallelogram(origin, v, w, m) >>)

Parallelepiped(origin, u, v, w, m) ==
    SceneOf(<< Parallelogram(origin, u, v, m),
               Parallelogram(VAdd(origin, w), u, v, m),
               Parallelogram(VAdd(origin, v), u, w, m),
               Parallelogram(origin, u, w, m),
               Parallelogram(VAdd(origin, u), v, w, m),
               Parallelogram(origin, v, w, m) >>)

Miss(h) == [hit |-> FALSE, rec |-> h]

\* `x < t_min || t_max < x`: the rejection test of a candidate t.
OutOfRange_strict(x, t_min, t_max) == Le(x, t_min) \/ Le(t_max, x)
OutOfRange(x, t_min, t_max) == Lt(x, t_min) \/ Lt(t_max, x)

\* Sphere::hit, step 4: fill rec at the chosen root.
SphereRecord(o, r, h, root) ==
    [hit |-> TRUE,
     rec |-> [set_face_normal([h EXCEPT !.t = root, !.p = RayAt(r, root)], r,
                              VDiv(VSub(RayAt(r, root), o.center), o.radius))
                 EXCEPT !.mat_ptr = o.mat_ptr]]

\* Sphere::hit, step 3: the nearer root, else the farther one, else no hit.
SphereRoot(o, r, t_min, t_max, h, root1, root2) ==
    IF ~OutOfRange(root1, t_min, t_max) THEN SphereRecord(o, r, h, root1)
    ELSE IF ~OutOfRange(root2, t_min, t_max) THEN SphereRecord(o, r, h, root2)
    ELSE Miss(h)

\* Sphere::hit, step 2: the discriminant test and the two roots.
SphereDiscriminant(o, r, t_min, t_max, h, a, half_b, discriminant) ==
    IF Lt(discriminant, Num(0)) THEN Miss(h)
    ELSE SphereRoot(o, r, t_min, t_max, h,
                    Div(Sub(Neg(half_b), Sqrt(discriminant)), a),
                    Div(Add(Neg(half_b), Sqrt(discriminant)), a))

\* Sphere::hit, step 1: the coefficients a, half_b, c of the quadratic.
SphereQuadratic(o, r, t_min, t_max, h, a, half_b, c) ==
    SphereDiscriminant(o, r, t_min, t_max, h, a, half_b,
                       Sub(Mul(half_b, half_b), Mul(a, c)))

SphereHit(o, r, t_min, t_max, h) ==
    SphereQuadratic(o, r, t_min, t_max, h,
                    length_squared(r.dir),
                    dot(VSub(r.orig, o.center), r.dir),
                    Sub(length_squared(VSub(r.orig, o.center)),
                        Mul(o.radius, o.radius)))

\* Plane::hit from the computation of t on.
PlaneAt(o, r, t_min, t_max, h, t) ==
    IF Lt(t, t_min) \/ Lt(t_max, t) THEN Miss(h)
    ELSE [hit |-> TRUE,
          rec |-> [set_face_normal([h EXCEPT !.t = t, !.p = RayAt(r, t)], r, o.normal)
                      EXCEPT !.mat_ptr = o.mat_ptr]]

PlaneDenom(o, r, t_min, t_max, h, denom) ==
    IF Lt(AbsNum(denom), Frac(1, 1000000)) THEN Miss(h)
    ELSE PlaneAt(o, r, t_min, t_max, h,
                 Div(dot(VSub(o.point, r.orig), o.normal), denom))

PlaneHit(o, r, t_min, t_max, h) ==
    PlaneDenom(o, r, t_min, t_max, h, dot(r.dir, o.normal))

\* Parallelogram::hit, steps 4 and 5: the range test of alpha and beta and
\* the record.
ParallelogramInterior(o, r, h, t, intersection, alpha, beta) ==
    IF Lt(alpha, Num(0)) \/ Lt(Num(1), alpha)
          \/ Lt(beta, Num(0)) \/ Lt(Num(1), beta) THEN Miss(h)
    ELSE [hit |-> TRUE,
          rec |-> set_face_normal(
                      [h EXCEPT !.t = t, !.p = intersection, !.mat_ptr = o.mat_ptr],
                      r, o.normal)]

ParallelogramPlanar(o, r, h, t, intersection, planar_hitpt_vector) ==
    ParallelogramInterior(o, r, h, t, intersection,
                          dot(o.w, cross(planar_hitpt_vector, o.v)),
                          dot(o.w, cross(o.u, planar_hitpt_vector)))

ParallelogramPoint(o, r, h, t, intersection) ==
    ParallelogramPlanar(o, r, h, t, intersection, VSub(intersection, o.Q))

\* Parallelogram::hit, step 2: t and its range test.
ParallelogramAt_writesEarly(o, r, t_min, t_max, h, t) ==
    IF Lt(t, t_min) \/ Lt(t_max, t) THEN Miss(h)
    ELSE ParallelogramPoint(o, r, [h EXCEPT !.t = t], t, RayAt(r, t))
ParallelogramAt(o, r, t_min, t_max, h, t) ==
    IF Lt(t, t_min) \/ Lt(t_max, t) THEN Miss(h)
    ELSE ParallelogramPoint(o, r, h, t, RayAt(r, t))

\* Parallelogram::hit, step 1: the parallel test.
ParallelogramDenom(o, r, t_min, t_max, h, denom) ==
    IF Lt(AbsNum(denom), Frac(1, 100000000)) THEN Miss(h)
    ELSE ParallelogramAt(o, r, t_min, t_max, h,
                         Div(Sub(o.D, dot(o.normal, r.orig)), denom))

ParallelogramHit(o, r, t_min, t_max, h) ==
    ParallelogramDenom(o, r, t_min, t_max, h, dot(o.normal, r.dir))

\* object->hit(...): the virtual call, and the loop of Scene::hit over the
\* members from the k-th on.  st holds the locals temp_rec, hit_anything,
\* closest_so_far and the caller's rec.
RECURSIVE Hit(_, _, _, _, _)
RECURSIVE SceneLoop(_, _, _, _, _)
\* `if (object->hit(r, t_min, closest_so_far, temp_rec)) { ... }` on the
\* result res of the k-th member, then the rest of the loop.
SceneStep_keepFirst(objs, k, r, t_min, st, res) ==
    IF res.hit /\ (~st.hit_anything \/ Lt(res.rec.t, st.closest_so_far))
    THEN SceneLoop(objs, k + 1, r, t_min,
                   [temp_rec |-> res.rec, hit_anything |-> TRUE,
                    closest_so_far |-> res.rec.t, rec |-> res.rec])
    ELSE SceneLoop(objs, k + 1, r, t_min, [st EXCEPT !.temp_rec = res.rec])
SceneStep(objs, k, r, t_min, st, res) ==
    IF res.hit
    THEN SceneLoop(objs, k + 1, r, t_min,
                   [temp_rec |-> res.rec, hit_anything |-> TRUE,
                    closest_so_far |-> res.rec.t, rec |-> res.rec])
    ELSE SceneLoop(objs, k + 1, r, t_min, [st EXCEPT !.temp_rec = res.rec])

SceneLoop(objs, k, r, t_min, st) ==
    IF k > Len(objs) THEN st
    ELSE SceneStep(objs, k, r, t_min, st,
                   Hit(objs[k], r, t_min, st.closest_so_far, st.temp_rec))

SceneHit(o, r, t_min, t_max, h) ==
    LET st == SceneLoop(o.objects, 1, r, t_min,
                  [temp_rec |-> NewHitRecord, hit_anything |-> FALSE,
                   closest_so_far |-> t_max, rec |-> h])
    IN  [hit |-> st.hit_anything, rec |-> st.rec]

Hit(o, r, t_min, t_max, h) ==
    CASE o.kind = "sphere" -> SphereHit(o, r, t_min, t_max, h)
      [] o.kind = "plane" -> PlaneHit(o, r, t_min, t_max, h)
      [] o.kind = "parallelogram" -> ParallelogramHit(o, r, t_min, t_max, h)
      [] o.kind = "scene" -> SceneHit(o, r, t_min, t_max, h)

(***************************************************************************)
(* The primitives, rays and intervals the scene model draws from.          *)
(***************************************************************************)
MaxObjects == 2

Shapes ==
    { Sphere(Vec3(0, 0, -3), Num(1), "m1"),
      Sphere(Vec3(0, 0, -1), Num(2), "m2"),
      Sphere(Vec3(0, 0, -2), Num(0), "m3"),
      Plane(Vec3(0, 0, -2), Vec3(0, 0, 2), "m1"),
      Plane(Vec3(0, 0, -4), Vec3(0, 0, 0), "m2"),
      Parallelogram(Vec3(-1, -1, -4), Vec3(2, 0, 0), Vec3(0, 2, 0), "m3"),
      Parallelogram(Vec3(-1, -1, -4), Vec3(2, 0, 0), Vec3(2, 0, 0), "m1"),
      Parallelogram(Vec3(1, 1, -3), Vec3(2, 0, 0), Vec3(0, 2, 0), "m1"),
      Parallelepiped(Vec3(-1, -1, -6), Vec3(2, 0, 0), Vec3(0, 2, 0), Vec3(0, 0, 1), "m2") }

Rays ==
    { Ray(Vec3(0, 0, 0), Vec3(0, 0, -1)),
      Ray(Vec3(0, 0, 0), Vec3(0, 0, -2)),
      Ray(Vec3(0, 0, 0), Vec3(1, 0, 0)),
      Ray(Vec3(0, 0, 0), Vec3(0, 0, 0)),
      Ray(Vec3(0, 0, 0), <<infinity, NaN, Num(-1)>>) }

Intervals ==
    { <<Frac(1, 1000), infinity>>, <<Num(2), Num(4)>>, <<Num(0), Frac(5, 2)>> }

NoCall == [r |-> "none"]

(***************************************************************************)
(* Initial state: a call of render_blocks_round_robin for each thread_id   *)
(* of 0..T-1 on a buffer of W*H pixels and a counter of 0.                 *)
(***************************************************************************)
(***************************************************************************)
(* SceneXMLParser: the parsed data.  An AttrMap and a NestedAttrMap are     *)
(* sets of <<key, value>> pairs with one pair per key.                      *)
(***************************************************************************)
MaterialObject == [type |-> "", properties |-> {}]
SceneObject == [id |-> "", type |-> "", properties |-> {}, material |-> MaterialObject]
Camera == [id |-> "", type |-> "", properties |-> {}]
GlobalSettings == [properties |-> {}]
SceneData == [global_settings |-> GlobalSettings, objects |-> << >>, camera |-> Camera]

\* map[key] = value
Put(map, key, value) == { e \in map : e[1] # key } \cup { <<key, value>> }
\* attrs.count(key) ? attrs[key] : ""
AttrGet(attrs, key) ==
    IF \E e \in attrs : e[1] = key
    THEN (CHOOSE e \in attrs : e[1] = key)[2]
    ELSE ""

\* A parser on which parseString has reset its state and read no tag yet.
ParseIdle ==
    /\ m_sceneData = SceneData
    /\ m_currentParentTag = ""
    /\ m_currentObject = SceneObject
    /\ m_currentCamera = Camera
    /\ m_currentGlobal = GlobalSettings
    /\ m_currentMaterial = MaterialObject
    /\ tags_read = 0
    /\ open_elements = << >>
    /\ closed_objects = << >>
    /\ late_property = FALSE

\* No parallel region of render_omp has been entered.
OmpIdle ==
    /\ omp_next = 0
    /\ omp_j = [t \in ThreadIds |-> 0]
    /\ omp_end = [t \in ThreadIds |-> 0]

HitIdle ==
    /\ objects = << >>
    /\ call = NoCall
    /\ ret = FALSE
    /\ rec = NewHitRecord

ShadeIdle ==
    /\ materials = << >>
    /\ background = Vec3(0, 0, 0)
    /\ max_depth = 0
    /\ sample_s = 0
    /\ pixel_color = Vec3(0, 0, 0)
    /\ pixel = Unwritten
    /\ shade = NoCall

Init ==
    /\ HitIdle
    /\ ShadeIdle
    /\ ParseIdle
    /\ OmpIdle
    /\ num_threads \in 1 .. MaxThreads
    /\ block_size \in 1 .. MaxBlockSize
    /\ image_width \in 0 .. MaxWidth
    /\ image_height \in 0 .. MaxHeight
    /\ samples_per_pixel \in 0 .. MaxSamples
    /\ pc = [t \in ThreadIds |-> IF t < num_threads THEN "start" ELSE "absent"]
    /\ block_idx = [t \in ThreadIds |-> 0]
    /\ row_j = [t \in ThreadIds |-> 0]
    /\ col_i = [t \in ThreadIds |-> 0]
    /\ pixel_buffer = [x \in 0 .. (image_width * image_height - 1) |-> Unwritten]
    /\ completed_lines = 0
    /\ cerr = << >>
    /\ generator = [s \in ThreadIds |-> Uninit]
    /\ seed = [s \in ThreadIds |-> Uninit]
    /\ rng_access = [o \in ({"generator", "distribution"} \X ThreadIds) |-> {}]
    /\ writes = [x \in 0 .. (image_width * image_height - 1) |-> << >>]
    /\ oob_write = FALSE
    /\ rows_done = [t \in ThreadIds |-> << >>]

(***************************************************************************)
(* Actions of worker t.                                                    *)
(***************************************************************************)
\* Entry: total_blocks, block_idx = thread_id, and the loop headers.
Start(t) ==
    /\ pc[t] = "start"
    /\ MoveTo(t, LoopHeaders(t, BlockStartJ(t)))
    /\ UNCHANGED <<paramVars, sharedVars, rngVars, ghostVars, hitVars, shadeVars, parseVars, ompVars>>

\* The body of the pixel loop: the samples of pixel (i, j), the store into
\* pixel_buffer[idx], ++i and the header of the pixel loop.  `entropy` is the
\* value std::random_device returns if this is the thread's first draw.
WritePixel(t, entropy) ==
    /\ pc[t] = "pixel"
    /\ LET i == col_i[t]
           j == row_j[t]
           slot == GeneratorSlot(t)
           draws == samples_per_pixel > 0
           fresh == draws /\ generator[slot] = Uninit
           sd == entropy + omp_get_thread_num(t)
           g0 == IF fresh THEN MtSeed(sd) ELSE generator[slot]
           r == SampleLoop(g0, i, j, 0)
           idx == PixelIndex(i, j)
       IN  /\ generator' = [generator EXCEPT ![slot] = r.gen]
           /\ seed' = IF fresh THEN [seed EXCEPT ![slot] = sd] ELSE seed
           /\ rng_access' =
                 IF draws
                 THEN [o \in DOMAIN rng_access |->
                          IF o \in RandomObjects(t) THEN rng_access[o] \cup {t}
                          ELSE rng_access[o]]
                 ELSE rng_access
           /\ IF idx \in DOMAIN pixel_buffer
              THEN /\ pixel_buffer' = [pixel_buffer EXCEPT ![idx] = r.samples]
                   /\ writes' = [writes EXCEPT ![idx] = Append(@, <<t, i, j>>)]
                   /\ UNCHANGED oob_write
              ELSE /\ oob_write' = TRUE
                   /\ UNCHANGED <<pixel_buffer, writes>>
           /\ IF i + 1 < image_width
              THEN MoveTo(t, [pc |-> "pixel", block_idx |-> block_idx[t],
                              row_j |-> j, col_i |-> i + 1])
              ELSE MoveTo(t, [pc |-> "add", block_idx |-> block_idx[t],
                              row_j |-> j, col_i |-> 0])
    /\ UNCHANGED <<paramVars, completed_lines, cerr, rows_done, hitVars, shadeVars, parseVars, ompVars>>

\* completed_lines.fetch_add(1), the progress line written to std::cerr (its
\* number is the counter as this step leaves it), then --j and the loop headers.
FetchAdd_barrier(t) ==
    /\ pc[t] = "add"
    /\ \A u \in Workers : pc[u] = "add"
    /\ completed_lines' = completed_lines + 1
    /\ cerr' = Append(cerr, <<completed_lines + 1, image_height>>)
    /\ rows_done' = [rows_done EXCEPT ![t] = Append(@, <<block_idx[t], row_j[t]>>)]
    /\ MoveTo(t, LoopHeaders(block_idx[t], row_j[t] - 1))
    /\ UNCHANGED <<paramVars, pixel_buffer, rngVars, writes, oob_write, hitVars, shadeVars, parseVars, ompVars>>

FetchAdd(t) ==
    /\ pc[t] = "add"
    /\ completed_lines' = completed_lines + 1
    /\ cerr' = Append(cerr, <<completed_lines + 1, image_height>>)
    /\ rows_done' = [rows_done EXCEPT ![t] = Append(@, <<block_idx[t], row_j[t]>>)]
    /\ MoveTo(t, LoopHeaders(block_idx[t], row_j[t] - 1))
    /\ UNCHANGED <<paramVars, pixel_buffer, rngVars, writes, oob_write, hitVars, shadeVars, parseVars, ompVars>>

\* std::random_device{}() is called once per generator, at the thread's first
\* random_double: the values it may return then.
RandomDevice(t) ==
    IF samples_per_pixel > 0 /\ generator[GeneratorSlot(t)] = Uninit
    THEN 0 .. (SeedRange - 1)
    ELSE {0}

WorkerStep(t) ==
    \/ Start(t)
    \/ \E entropy \in RandomDevice(t) : WritePixel(t, entropy)
    \/ FetchAdd(t)

Next == \E t \in ThreadIds : WorkerStep(t)

Spec == Init /\ [][Next]_vars

\* Every worker thread is scheduled again and again until it returns.
FairSpec == Spec /\ \A t \in ThreadIds : WF_vars(WorkerStep(t))

AllDone == \A t \in Workers : pc[t] = "done"


(***************************************************************************)
(* What the specification says of the scheduler, stated without the code's *)
(* loop arithmetic.                                                        *)
(***************************************************************************)
\* ceil(H / B): the least k with k * B >= H.
CeilDiv(h, b) == CHOOSE k \in 0 .. h : k * b >= h /\ (k - 1) * b < h

\* The rows of block k: from H-1-k*B down to max(0, H-k*B-B).
ClaimedRows(k) ==
    { j \in 0 .. (image_height - 1) :
        /\ j <= image_height - 1 - k * block_size
        /\ j >= Max(0, image_height - k * block_size - block_size) }

\* The blocks of worker t: t, t+T, t+2T, ... below ceil(H/B).
ClaimedBlocks(t) ==
    { k \in 0 .. (CeilDiv(image_height, block_size) - 1) : k % num_threads = t }

\* The <<block, row>> pairs of worker t.
ClaimedBlockRows(t) ==
    UNION { { <<k, j>> : j \in ClaimedRows(k) } : k \in ClaimedBlocks(t) }

SeqToSet(s) == { s[n] : n \in DOMAIN s }

StoresAt(x) == SeqToSet(writes[x])

\* C1: the workers together write exactly the indices 0..W*H-1; no index is
\* written by two workers and none is written twice.
C1_ExclusivePartition ==
    /\ \A x \in DOMAIN writes : Len(writes[x]) <= 1
    /\ ~oob_write
    /\ AllDone => \A x \in 0 .. (image_width * image_height - 1) :
                      x \in DOMAIN writes /\ Len(writes[x]) = 1

\* C1 witness: a finished render in which two workers each wrote pixels.
C1_Witness ==
    /\ AllDone
    /\ image_width * image_height >= 4
    /\ \E x, y \in DOMAIN writes :
          /\ writes[x] # << >> /\ writes[y] # << >>
          /\ writes[x][1][1] # writes[y][1][1]

\* C2: the rows are split into ceil(H/B) blocks from the top; worker t handles
\* exactly the blocks k with k mod T = t, each with the rows H-1-k*B down to
\* max(0, H-k*B-B), and never a row below 0.
C2_RoundRobinBlocks ==
    \A t \in Workers :
       /\ \A e \in SeqToSet(rows_done[t]) :
             e[1] \in ClaimedBlocks(t) /\ e[2] \in ClaimedRows(e[1])
       /\ pc[t] \in {"pixel", "add"} =>
             block_idx[t] \in ClaimedBlocks(t) /\ row_j[t] \in ClaimedRows(block_idx[t])
       /\ \A x \in DOMAIN writes : \A w \in StoresAt(x) :
             w[1] = t => \E k \in ClaimedBlocks(t) : w[3] \in ClaimedRows(k)
       /\ pc[t] = "done" =>
             /\ SeqToSet(rows_done[t]) = ClaimedBlockRows(t)
             /\ Len(rows_done[t]) = Cardinality(SeqToSet(rows_done[t]))

\* C2 witness: with two workers, a worker has finished a block other than
\* block 0 whose lower end was clamped to row 0, leaving it shorter than B.
C2_Witness ==
    /\ num_threads >= 2
    /\ \E t \in Workers :
          /\ pc[t] = "done"
          /\ \E k \in ClaimedBlocks(t) :
                /\ k >= 1
                /\ ClaimedRows(k) # {}
                /\ Cardinality(ClaimedRows(k)) < block_size
                /\ ClaimedRows(k) \subseteq { e[2] : e \in SeqToSet(rows_done[t]) }

\* C3: image coordinate (i, j), j = 0 at the bottom, is stored at the
\* row-major index whose row is the number of rows above j and whose column
\* is i; the index lies in [0, W*H) and the top row sits at 0..W-1.
C3_RowMajorTopFirst ==
    /\ ~oob_write
    /\ \A x \in DOMAIN writes : \A w \in StoresAt(x) :
          /\ w[2] \in 0 .. (image_width - 1)
          /\ w[3] \in 0 .. (image_height - 1)
          /\ x \in 0 .. (image_width * image_height - 1)
          /\ x \div image_width = image_height - 1 - w[3]
          /\ x % image_width = w[2]
          /\ (w[3] = image_height - 1) <=> (x \in 0 .. (image_width - 1))

\* C3 witness: a pixel of the bottom row of a 2x2 or larger image is stored
\* in the last row of the buffer.
C3_Witness ==
    /\ image_width >= 2 /\ image_height >= 2
    /\ \E x \in DOMAIN writes : \E w \in StoresAt(x) :
          w[3] = 0 /\ w[2] = 1 /\ x = image_width * image_height - 1


\* The rows all of whose pixels have been stored.
FullRows ==
    { j \in 0 .. (image_height - 1) :
        \A i \in 0 .. (image_width - 1) :
           \E x \in DOMAIN writes : \E w \in StoresAt(x) : w[2] = i /\ w[3] = j }

\* The rows some worker has incremented the counter for.
CountedRows == UNION { { e[2] : e \in SeqToSet(rows_done[t]) } : t \in Workers }

RECURSIVE SumLen(_, _)
SumLen(f, S) ==
    IF S = {} THEN 0
    ELSE LET t == CHOOSE u \in S : TRUE IN Len(f[t]) + SumLen(f, S \ {t})

\* Workers that stored the last pixel of a row and have not incremented yet.
AtIncrement == { t \in Workers : pc[t] = "add" }

\* C4 as stated: one increment per row, after the row is written; in every
\* reachable state the counter equals the number of fully written rows (read
\* for images with at least one column), is at most H, and is H at the end.
C4_CounterEqualsFullRows ==
    /\ CountedRows \subseteq FullRows
    /\ image_width >= 1 => completed_lines = Cardinality(FullRows)
    /\ completed_lines <= image_height
    /\ AllDone => completed_lines = image_height

\* C4 amended: one increment per row, after the row is written; the counter
\* never exceeds the number of fully written rows and (for W >= 1) is short of
\* it by exactly the number of workers that have stored the last pixel of a
\* row and not yet incremented; it is at most H, and H once all have finished.
C4_CounterLagsFullRows ==
    /\ CountedRows \subseteq FullRows
    /\ completed_lines = SumLen(rows_done, Workers)
    /\ completed_lines = Cardinality(CountedRows)
    /\ completed_lines <= Cardinality(FullRows)
    /\ image_width >= 1 =>
          completed_lines = Cardinality(FullRows) - Cardinality(AtIncrement)
    /\ completed_lines <= image_height
    /\ AllDone => completed_lines = image_height

\* C4 witness: a worker stands between the last store of a row and its
\* increment while the counter already counts another row.
C4_Witness ==
    /\ image_width >= 1
    /\ completed_lines >= 1
    /\ AtIncrement # {}
    /\ Cardinality(FullRows) > completed_lines

\* C5: under fair scheduling every worker finishes, whatever T, B, W, H and
\* the sample count; a worker whose thread_id is at least the number of
\* blocks finishes without a store or an increment; and no unfinished worker
\* ever has to wait: its next step is always enabled.
C5_EveryWorkerFinishes ==
    /\ <>[]AllDone
    /\ [](\A t \in Workers : pc[t] # "done" => ENABLED WorkerStep(t))
    /\ [](\A t \in Workers :
            t >= CeilDiv(image_height, block_size) =>
               /\ rows_done[t] = << >>
               /\ \A x \in DOMAIN writes : \A w \in StoresAt(x) : w[1] # t
               /\ pc[t] \in {"start", "done"})

\* C5 witness: a render has finished in which one worker had no block while
\* another one stored pixels.
C5_Witness ==
    /\ AllDone
    /\ \E t \in Workers : t >= CeilDiv(image_height, block_size)
    /\ \E x \in DOMAIN writes : writes[x] # << >>


(***************************************************************************)
(* Reference renders: one worker alone, run sequentially from its seed.    *)
(***************************************************************************)
\* The rows of the blocks b, b+step, b+2*step, ... in the order a worker
\* visits them: blocks upwards, rows of a block from the top.
RECURSIVE RowOrder(_, _)
RowOrder(b, step) ==
    IF b >= CeilDiv(image_height, block_size) THEN << >>
    ELSE LET hi == image_height - 1 - b * block_size
             lo == Max(0, image_height - b * block_size - block_size)
         IN  [k \in 1 .. (hi - lo + 1) |-> hi - k + 1] \o RowOrder(b + step, step)

\* The pixels <<i, j>> of these rows, each row from i = 0 to W-1.
PixelOrder(rows) ==
    [n \in 1 .. (Len(rows) * image_width) |->
        <<(n - 1) % image_width, rows[((n - 1) \div image_width) + 1]>>]

\* The samples of the pixels order[n..], drawn one pixel after the other
\* from generator state g.
RECURSIVE Replay(_, _, _)
Replay(g, order, n) ==
    IF n > Len(order) THEN << >>
    ELSE LET r == SampleLoop(g, order[n][1], order[n][2], 0)
         IN  <<r.samples>> \o Replay(r.gen, order, n + 1)

\* What a sequential run over `order` from seed sd stores for pixel (i, j).
ReplayedPixel(sd, order, i, j) ==
    LET n == CHOOSE m \in DOMAIN order : order[m] = <<i, j>>
    IN  Replay(MtSeed(sd), order, 1)[n]

\* Worker t of T alone, and the single worker of a T = 1 render.
WorkerOrder(t) == PixelOrder(RowOrder(t, num_threads))
SingleOrder == PixelOrder(RowOrder(0, 1))

\* C6 as stated: with the seeds of the workers fixed, each pixel of a T = k
\* render holds the set of samples the T = 1 render (worker 0 alone, same
\* seed) gives it.
C6_SameSamplesAsOneWorker ==
    AllDone =>
       \A x \in DOMAIN writes : \A w \in StoresAt(x) :
          SeqToSet(pixel_buffer[x]) =
             SeqToSet(ReplayedPixel(seed[0], SingleOrder, w[2], w[3]))

\* C7: the framebuffer is a function of the scene, T and the seeds alone:
\* whatever the interleaving, each stored pixel holds what its worker,
\* run alone from its seed, computes for it.
C7_SameSeedsSameFramebuffer ==
    \A x \in DOMAIN writes : \A w \in StoresAt(x) :
       pixel_buffer[x] = ReplayedPixel(seed[w[1]], WorkerOrder(w[1]), w[2], w[3])

\* C7 witness: a finished render with samples in which two workers stored
\* pixels, the second one more than one.
C7_Witness ==
    /\ AllDone
    /\ samples_per_pixel >= 1
    /\ num_threads >= 2
    /\ \E x, y \in DOMAIN writes :
          /\ x # y
          /\ writes[x] # << >> /\ writes[y] # << >>
          /\ writes[x][1][1] = 1 /\ writes[y][1][1] = 1
    /\ \E x \in DOMAIN writes : writes[x] # << >> /\ writes[x][1][1] = 0

\* C8 as stated: no object that random_double uses in one worker is used by
\* random_double in another worker.
C8_RandomStatePrivate ==
    \A o \in DOMAIN rng_access : Cardinality(rng_access[o]) <= 1


(***************************************************************************)
(* A scene under construction and calls of Scene::hit on it.               *)
(***************************************************************************)
RenderIdle ==
    /\ num_threads = 1 /\ block_size = 1
    /\ image_width = 0 /\ image_height = 0 /\ samples_per_pixel = 0
    /\ pc = [t \in ThreadIds |-> "absent"]
    /\ block_idx = [t \in ThreadIds |-> 0]
    /\ row_j = [t \in ThreadIds |-> 0]
    /\ col_i = [t \in ThreadIds |-> 0]
    /\ pixel_buffer = << >>
    /\ completed_lines = 0
    /\ cerr = << >>
    /\ generator = [s \in ThreadIds |-> Uninit]
    /\ seed = [s \in ThreadIds |-> Uninit]
    /\ rng_access = [o \in ({"generator", "distribution"} \X ThreadIds) |-> {}]
    /\ writes = << >>
    /\ oob_write = FALSE
    /\ rows_done = [t \in ThreadIds |-> << >>]

HitInit == RenderIdle /\ HitIdle /\ ShadeIdle /\ ParseIdle /\ OmpIdle

\* Scene::add
SceneAdd(o) ==
    /\ Len(objects) < MaxObjects
    /\ objects' = Append(objects, o)
    /\ call' = NoCall /\ ret' = FALSE /\ rec' = NewHitRecord
    /\ UNCHANGED <<renderVars, shadeVars, parseVars, ompVars>>

\* convertSceneDataToRenderScene, the material of one parsed object: the handle
\* `mat` after the if / else-if chain on mat_data.type.  `mat` is declared
\* empty and no branch assigns it for any other type.
ConvertMaterial(mat_data) ==
    IF mat_data.type = "matte" THEN "m1"
    ELSE IF mat_data.type = "metal" THEN "m3"
    ELSE IF mat_data.type = "glass" THEN "m4"
    ELSE IF mat_data.type = "light" THEN "m2"
    ELSE "null"

\* The primitives the loop body adds for one parsed object (its properties
\* are the values std::stof read): one for sphere, plane and parallelepiped,
\* none for any other object type.
ConvertObject(xml_obj, mat) ==
    IF xml_obj.type = "sphere"
    THEN <<Sphere(xml_obj.position, xml_obj.radius, mat)>>
    ELSE IF xml_obj.type = "plane"
    THEN <<Plane(xml_obj.position, xml_obj.normal, mat)>>
    ELSE IF xml_obj.type = "parallelepiped"
    THEN <<Parallelepiped(xml_obj.origin, xml_obj.u, xml_obj.v, xml_obj.w, mat)>>
    ELSE << >>

\* Parsed objects: a sphere, a plane and a parallelepiped, each with a
\* material that is matte, light, of a type the converter does not know, or
\* without a type; and an object of an unknown type.
XmlMaterialTypes == {"matte", "light", "plastic", ""}
XmlObjects ==
    { [type |-> "sphere", position |-> Vec3(0, 0, -3), radius |-> Num(1),
       material |-> [type |-> ty]] : ty \in XmlMaterialTypes }
    \cup { [type |-> "plane", position |-> Vec3(0, 0, -4), normal |-> Vec3(0, 0, 1),
             material |-> [type |-> ty]] : ty \in XmlMaterialTypes }
    \cup { [type |-> "parallelepiped", origin |-> Vec3(-1, -1, -6),
             u |-> Vec3(2, 0, 0), v |-> Vec3(0, 2, 0), w |-> Vec3(0, 0, 1),
             material |-> [type |-> ty]] : ty \in XmlMaterialTypes }
    \cup { [type |-> "cone", material |-> [type |-> "matte"]] }

\* One turn of the loop over data.objects.
SceneConvert(xml_obj) ==
    /\ Len(objects) < MaxObjects
    /\ objects' = objects \o ConvertObject(xml_obj, ConvertMaterial(xml_obj.material))
    /\ call' = NoCall /\ ret' = FALSE /\ rec' = NewHitRecord
    /\ UNCHANGED <<renderVars, shadeVars, parseVars, ompVars>>

\* Scene::clear
SceneClear ==
    /\ objects # << >>
    /\ objects' = << >>
    /\ call' = NoCall /\ ret' = FALSE /\ rec' = NewHitRecord
    /\ UNCHANGED <<renderVars, shadeVars, parseVars, ompVars>>

\* `HitRecord rec;` and world.hit(r, t_min, t_max, rec) on it: the caller
\* declares a fresh record and asks the scene once.
SceneHitCall(r, t_min, t_max) ==
    /\ call = NoCall
    /\ \E res \in {SceneHit(SceneOf(objects), r, t_min, t_max, NewHitRecord)} :
          /\ ret' = res.hit
          /\ rec' = res.rec
    /\ call' = [r |-> r, t_min |-> t_min, t_max |-> t_max]
    /\ UNCHANGED <<objects, renderVars, shadeVars, parseVars, ompVars>>

\* The caller returns: its HitRecord goes out of scope.
HitReturn ==
    /\ call # NoCall
    /\ call' = NoCall /\ ret' = FALSE /\ rec' = NewHitRecord
    /\ UNCHANGED <<objects, renderVars, shadeVars, parseVars, ompVars>>

HitNext ==
    \/ \E o \in Shapes : SceneAdd(o)
    \/ SceneClear
    \/ \E r \in Rays, iv \in Intervals : SceneHitCall(r, iv[1], iv[2])
    \/ HitReturn

HitSpec == HitInit /\ [][HitNext]_vars

\* The scene as convertSceneDataToRenderScene fills it from parsed objects,
\* and the calls of Scene::hit on it.
ConvertNext ==
    \/ \E xml_obj \in XmlObjects : SceneConvert(xml_obj)
    \/ SceneClear
    \/ \E r \in Rays, iv \in Intervals : SceneHitCall(r, iv[1], iv[2])
    \/ HitReturn

ConvertSpec == HitInit /\ [][ConvertNext]_vars

\* The i-th member asked by itself on the interval of the last call.
Alone(k) == Hit(objects[k], call.r, call.t_min, call.t_max, NewHitRecord)
HitsAlone == { k \in DOMAIN objects : Alone(k).hit }

\* Construction arguments the specification calls valid: a sphere of non-zero
\* radius, a plane with a non-zero normal, a parallelogram with non-parallel
\* edges; a ray with a finite non-zero direction.
RECURSIVE WellFormed(_)
WellFormed(o) ==
    CASE o.kind = "sphere" -> o.radius # Num(0)
      [] o.kind = "plane" -> \A n \in 1 .. 3 : o.normal[n] # NaN
      [] o.kind = "parallelogram" -> \A n \in 1 .. 3 : o.normal[n] # NaN
      [] o.kind = "scene" -> \A n \in DOMAIN o.objects : WellFormed(o.objects[n])
ValidCall ==
    /\ call # NoCall
    /\ call.r.dir # Vec3(0, 0, 0)
    /\ \A n \in 1 .. 3 : call.r.dir[n][2] # 0
    /\ \A k \in DOMAIN objects : WellFormed(objects[k])

\* C9 as stated: Scene::hit reports a hit exactly when some member hits on
\* [t_min, t_max] by itself, and then returns the smallest t of those members.
C9_SceneHitIsNearest ==
    call # NoCall =>
       /\ ret <=> HitsAlone # {}
       /\ ret => /\ \E k \in HitsAlone : Alone(k).rec.t = rec.t
                 /\ \A k \in HitsAlone : Le(rec.t, Alone(k).rec.t)

\* C9 on valid primitives and rays only (holds).
C9_SceneHitIsNearest_ValidInputs == ValidCall => C9_SceneHitIsNearest

\* C10 as stated: whenever hit returns true, for a member by itself or for
\* the scene, the recorded t satisfies t_min <= t <= t_max.
C10_HitWithinInterval ==
    call # NoCall =>
       /\ ret => Le(call.t_min, rec.t) /\ Le(rec.t, call.t_max)
       /\ \A k \in HitsAlone :
             Le(call.t_min, Alone(k).rec.t) /\ Le(Alone(k).rec.t, call.t_max)

\* C10 on valid primitives and rays only (holds).
C10_HitWithinInterval_ValidInputs == ValidCall => C10_HitWithinInterval

\* The outward normals the plane and parallelogram members hand to
\* set_face_normal, and the hit records the members produce by themselves.
FaceNormals ==
    { objects[k].normal :
         k \in { n \in DOMAIN objects : objects[n].kind \in {"plane", "parallelogram"} } }
HitRecords == { Alone(k).rec : k \in HitsAlone } \cup (IF ret THEN {rec} ELSE {})

\* C11 as stated: set_face_normal(ray, n_out) sets front_face to
\* direction . n_out < 0 and the normal to n_out when front_face, to -n_out
\* otherwise; and every hit record produced by a primitive has
\* direction . normal <= 0.
C11_FaceNormalOpposesRay ==
    call # NoCall =>
       /\ \A n_out \in FaceNormals :
             LET h == set_face_normal(NewHitRecord, call.r, n_out)
             IN  /\ h.front_face = Lt(dot(call.r.dir, n_out), Num(0))
                 /\ h.normal = IF h.front_face THEN n_out ELSE VNeg(n_out)
       /\ \A h \in HitRecords :
             /\ h.front_face \in BOOLEAN
             /\ Le(dot(call.r.dir, h.normal), Num(0))

\* C11 on valid primitives and rays only (holds).
C11_FaceNormalOpposesRay_ValidInputs == ValidCall => C11_FaceNormalOpposesRay

\* C16 as stated: a sphere of radius zero, a plane with a zero normal and a
\* parallelogram with parallel edges are rejected by their constructors, so
\* none is ever a member of a scene, and none is there when hit is called.
C16_DegenerateRejected ==
    /\ \A k \in DOMAIN objects : WellFormed(objects[k])
    /\ call # NoCall => \A k \in DOMAIN objects : WellFormed(objects[k])

\* C17 as stated: a ray whose direction is (0,0,0) is rejected when it is
\* constructed, so no such ray is ever passed to hit.
C17_ZeroRayRejected ==
    call # NoCall => call.r.dir # Vec3(0, 0, 0)

\* The constructor arguments (origin, u, v, w, m) of the parallelepipeds among
\* Shapes, and the six parallelograms C19 names for them, in its order.
Boxes ==
    { <<Vec3(-1, -1, -6), Vec3(2, 0, 0), Vec3(0, 2, 0), Vec3(0, 0, 1), "m2">> }
SixParallelograms(b) ==
    << Parallelogram(b[1], b[2], b[3], b[5]),
       Parallelogram(VAdd(b[1], b[4]), b[2], b[3], b[5]),
       Parallelogram(VAdd(b[1], b[3]), b[2], b[4], b[5]),
       Parallelogram(b[1], b[2], b[4], b[5]),
       Parallelogram(VAdd(b[1], b[2]), b[3], b[4], b[5]),
       Parallelogram(b[1], b[3], b[4], b[5]) >>
BoxOf(o) == { b \in Boxes : o = Parallelepiped(b[1], b[2], b[3], b[4], b[5]) }
\* The scene list with every parallelepiped replaced, in place, by its six
\* parallelograms.
RECURSIVE Expand(_)
Expand(objs) ==
    IF objs = << >> THEN << >>
    ELSE (IF BoxOf(Head(objs)) # {}
          THEN SixParallelograms(CHOOSE b \in BoxOf(Head(objs)) : TRUE)
          ELSE <<Head(objs)>>) \o Expand(Tail(objs))

\* C19: for every ray and interval, a scene holding a parallelepiped gives the
\* same outcome (hit or miss, t, p, normal, front_face, material) as the scene
\* in which its six parallelograms stand individually at the same position.
C19_ParallelepipedIsSixParallelograms ==
    call # NoCall =>
       \A world \in {SceneOf(Expand(objects))} :
          SceneHit(world, call.r, call.t_min, call.t_max, NewHitRecord)
             = [hit |-> ret, rec |-> rec]

\* C19 witness: a ray has hit the front face of the parallelepiped in a scene
\* that holds a second member as well.
C19_Witness ==
    /\ call # NoCall /\ ret
    /\ Len(objects) = 2
    /\ \E k \in DOMAIN objects : BoxOf(objects[k]) # {}
    /\ rec.t = Num(5) /\ rec.mat_ptr = "m2"
    /\ Expand(objects) # objects

(***************************************************************************)
(* Materials: constructors, emit and scatter.  Color is Vec3.              *)
(***************************************************************************)
Color(r, g, b) == <<r, g, b>>
\* operator*(Vec3 u, Vec3 v): component by component
VMul(u, v) == <<Mul(u[1], v[1]), Mul(u[2], v[2]), Mul(u[3], v[3])>>

Matte(a) == [kind |-> "matte", albedo |-> a]
Metal(a, f) ==
    [kind |-> "metal", albedo |-> a, fuzz |-> IF Lt(f, Num(1)) THEN f ELSE Num(1)]
PointLight(c) == [kind |-> "light", emit_color |-> c]

\* Material::emit, overridden by PointLight only
MaterialEmit_alwaysBlack(m, p) == Color(Num(0), Num(0), Num(0))
MaterialEmit(m, p) == IF m.kind = "light" THEN m.emit_color ELSE Color(Num(0), Num(0), Num(0))

\* The points Vec3(random_double(-1,1), random_double(-1,1), random_double(-1,1))
\* the rejection loops draw, and those they accept: length_squared >= 1 is
\* drawn again.
CubePoints ==
    { <<Num(0), Num(0), Frac(-1, 2)>>, <<Frac(3, 10), Num(0), Frac(2, 5)>>,
      <<Num(0), Num(0), Num(0)>>, <<Frac(4, 5), Frac(4, 5), Num(0)>> }
InUnitSphere == { p \in CubePoints : ~Le(Num(1), length_squared(p)) }
random_unit_vector(p) == unit_vector(p)
random_in_unit_sphere(p) == p

reflect(v, n) == VSub(v, VScale(Mul(Num(2), dot(v, n)), n))

\* What scatter leaves in (attenuate_color, r_out) and what it returns.  The
\* caller's `Color attenuation; Ray scattered;` start as zero vectors.
ScatterResult(b, a, r_out) == [ret |-> b, attenuation |-> a, scattered |-> r_out]
NotScattered ==
    ScatterResult(FALSE, Vec3(0, 0, 0), Ray(Vec3(0, 0, 0), Vec3(0, 0, 0)))

\* Matte::scatter; p is the point random_unit_vector accepted.
MatteDirection_noFallback(h, scatter_direction) == scatter_direction
MatteDirection(h, scatter_direction) ==
    IF Lt(length_squared(scatter_direction), Frac(1, 100000000))
    THEN h.normal
    ELSE scatter_direction
MatteScatter(m, r_in, h, p) ==
    ScatterResult(TRUE, m.albedo,
        Ray(h.p, MatteDirection(h, VAdd(h.normal, random_unit_vector(p)))))

\* Metal::scatter; p is the point random_in_unit_sphere accepted.
MetalOut(m, h, r_out) ==
    ScatterResult(Lt(Num(0), dot(r_out.dir, h.normal)), m.albedo, r_out)
MetalScatter(m, r_in, h, p) ==
    MetalOut(m, h,
        Ray(h.p, VAdd(reflect(unit_vector(r_in.dir), h.normal),
                      VScale(m.fuzz, random_in_unit_sphere(p)))))

\* rec.mat_ptr->scatter(r_in, rec, attenuation, scattered)
MaterialScatter(m, r_in, h, p) ==
    CASE m.kind = "matte" -> MatteScatter(m, r_in, h, p)
      [] m.kind = "metal" -> MetalScatter(m, r_in, h, p)
      [] m.kind = "light" -> NotScattered

(***************************************************************************)
(* ray_color.  rnds[k] is the point the k-th bounce's scatter accepts.      *)
(***************************************************************************)
RECURSIVE ray_color(_, _, _, _, _)
\* after scatter: emitted, or emitted + attenuation * ray_color(scattered)
RayColorScattered(emitted, sc, world, depth, bg_color, rnds) ==
    IF ~sc.ret THEN emitted
    ELSE VAdd(emitted,
              VMul(sc.attenuation,
                   ray_color(sc.scattered, world, depth - 1, bg_color, Tail(rnds))))

\* after world.hit: the background, or emit and scatter of the material hit
RayColorHit(r, res, world, depth, bg_color, rnds) ==
    IF ~res.hit THEN bg_color
    ELSE RayColorScattered(
             MaterialEmit(materials[res.rec.mat_ptr], res.rec.p),
             MaterialScatter(materials[res.rec.mat_ptr], r, res.rec, Head(rnds)),
             world, depth, bg_color, rnds)

ray_color_hitFromZero(r, world, depth, bg_color, rnds) ==
    IF depth <= 0 THEN Color(Num(0), Num(0), Num(0))
    ELSE RayColorHit(r, SceneHit(world, r, Num(0), infinity, NewHitRecord),
                     world, depth, bg_color, rnds)
ray_color(r, world, depth, bg_color, rnds) ==
    IF depth <= 0 THEN Color(Num(0), Num(0), Num(0))
    ELSE RayColorHit(r, SceneHit(world, r, Frac(1, 1000), infinity, NewHitRecord),
                     world, depth, bg_color, rnds)

(***************************************************************************)
(* The end of the sample loop: scale, sqrt, clamp, the cast to int.         *)
(***************************************************************************)
clamp(x, min, max) == IF Lt(x, min) THEN min ELSE IF Lt(max, x) THEN max ELSE x

\* static_cast<int>(x): truncation for a finite x within the range of int;
\* undefined for NaN, where the conversion instruction gives INT_MIN on
\* x86-64 and 0 on AArch64.
INT_MIN == -2147483647 - 1
CastOutcomes(x) ==
    IF x[2] = 0 THEN {INT_MIN, 0}
    ELSE {IF x[1] >= 0 THEN x[1] \div x[2] ELSE -((-x[1]) \div x[2])}

\* 1.0 / samples_per_pixel
Scale(n) == Div(Num(1), Num(n))
\* 256 * clamp(sqrt(channel * scale), 0.0, 0.999)
Channel(sum, scale) ==
    Mul(Num(256), clamp(Sqrt(Mul(sum, scale)), Num(0), Frac(999, 1000)))

(***************************************************************************)
(* The samples of one pixel: the scenes, materials and camera rays drawn   *)
(* from, and the sample loop of render_blocks_round_robin.                 *)
(***************************************************************************)
MaxDepth == 2

\* mat_ptr -> Material, as convertSceneDataToRenderScene would build them:
\* a grey Matte, a PointLight of colour c, a white Metal built with fuzz f.
MaterialTable(c, f) ==
    [m \in {"m1", "m2", "m3"} |->
        CASE m = "m1" -> Matte(Color(Frac(1, 2), Frac(1, 2), Frac(1, 2)))
          [] m = "m2" -> PointLight(c)
          [] m = "m3" -> Metal(Color(Num(1), Num(1), Num(1)), f)]

Bright == Color(Num(15), Num(15), Num(15))
Black == Color(Num(0), Num(0), Num(0))
Sky == Color(Frac(1, 4), Num(1), Num(0))

MattePlane == Plane(Vec3(0, 0, -2), Vec3(0, 0, 2), "m1")
MetalPanel == Parallelogram(Vec3(-1, -1, -4), Vec3(2, 0, 0), Vec3(0, 2, 0), "m3")
Setup(objs, c, f, bg) ==
    [objects |-> objs, materials |-> MaterialTable(c, f), background |-> bg]
\* The second argument of the Metal constructor in the scenes with a Metal.
FuzzArgs == { Frac(-1, 2), Num(0), Frac(1, 2), Num(2), NaN }
Setups ==
    { Setup(<< >>, Bright, Num(0), Sky),
      Setup(<< >>, Bright, Num(0), Black),
      Setup(<<Sphere(Vec3(0, 0, -3), Num(1), "m2")>>, Bright, Num(0), Black),
      Setup(<<Sphere(Vec3(0, 0, -3), Num(1), "m2")>>,
            Color(Num(-1), Num(4), Num(0)), Num(0), Sky),
      Setup(<<MattePlane>>, Bright, Num(0), Sky),
      Setup(<<MattePlane, Sphere(Vec3(0, 0, 3), Num(1), "m2")>>, Bright, Num(0), Black) }
    \cup { Setup(<<Sphere(Vec3(0, 0, 3), Num(1), "m2"), MetalPanel>>, Bright, f, Sky) :
              f \in FuzzArgs }

\* The rays handed to ray_color for the pixel, camera at the origin: one
\* down the view axis, one past the scene, and the ray of an image one pixel
\* wide, where u = (i + random_double()) / (image_width - 1) is +inf and
\* u * horizontal is (inf, NaN, NaN).
CameraRays ==
    { Ray(Vec3(0, 0, 0), Vec3(0, 0, -1)), Ray(Vec3(0, 0, 0), Vec3(1, 0, 0)),
      Ray(Vec3(0, 0, 0), <<infinity, NaN, NaN>>) }

ShadeInit ==
    /\ num_threads = 1 /\ block_size = 1
    /\ image_width = 0 /\ image_height = 0
    /\ samples_per_pixel \in 0 .. MaxSamples
    /\ pc = [t \in ThreadIds |-> "absent"]
    /\ block_idx = [t \in ThreadIds |-> 0]
    /\ row_j = [t \in ThreadIds |-> 0]
    /\ col_i = [t \in ThreadIds |-> 0]
    /\ pixel_buffer = << >>
    /\ completed_lines = 0
    /\ cerr = << >>
    /\ generator = [s \in ThreadIds |-> Uninit]
    /\ seed = [s \in ThreadIds |-> Uninit]
    /\ rng_access = [o \in ({"generator", "distribution"} \X ThreadIds) |-> {}]
    /\ writes = << >>
    /\ oob_write = FALSE
    /\ rows_done = [t \in ThreadIds |-> << >>]
    /\ \E su \in Setups :
          /\ objects = su.objects
          /\ materials = su.materials
          /\ background = su.background
    /\ call = NoCall /\ ret = FALSE /\ rec = NewHitRecord
    /\ max_depth \in 0 .. MaxDepth
    /\ sample_s = 0
    /\ pixel_color = Vec3(0, 0, 0)
    /\ pixel = Unwritten
    /\ shade = NoCall
    /\ ParseIdle
    /\ OmpIdle

\* The material the nearest hit of camera ray r belongs to: "miss" when
\* world.hit returns false, "none" when ray_color returns before asking.
NearestHit(res) == IF res.hit THEN res.rec.mat_ptr ELSE "miss"
FirstHit(r) ==
    IF max_depth <= 0 THEN "none"
    ELSE NearestHit(SceneHit(SceneOf(objects), r, Frac(1, 1000), infinity, NewHitRecord))

\* One turn of the sample loop: pixel_color += ray_color(r, ...); ++s
AddSample(r, rnds, c) ==
    /\ pixel_color' = VAdd(pixel_color, c)
    /\ shade' = [r |-> r, rnds |-> rnds, color |-> c,
                 first_hits |-> (IF shade = NoCall THEN {} ELSE shade.first_hits)
                                   \cup {FirstHit(r)}]
Sample(r, rnds) ==
    /\ pixel = Unwritten
    /\ sample_s < samples_per_pixel
    /\ \E c \in {ray_color(r, SceneOf(objects), max_depth, background, rnds)} :
          AddSample(r, rnds, c)
    /\ sample_s' = sample_s + 1
    /\ UNCHANGED <<renderVars, hitVars, parseVars, ompVars, materials, background, max_depth, pixel>>

\* After the loop: scale, the three channels, and the store of {ir, ig, ib}.
StorePixel ==
    /\ pixel = Unwritten
    /\ ~(sample_s < samples_per_pixel)
    /\ \E ir \in CastOutcomes(Channel(pixel_color[1], Scale(samples_per_pixel))),
          ig \in CastOutcomes(Channel(pixel_color[2], Scale(samples_per_pixel))),
          ib \in CastOutcomes(Channel(pixel_color[3], Scale(samples_per_pixel))) :
          pixel' = <<ir, ig, ib>>
    /\ UNCHANGED <<renderVars, hitVars, parseVars, ompVars, materials, background, max_depth,
                   sample_s, pixel_color, shade>>

\* ++i: the next pixel starts from Color pixel_color(0,0,0) and s = 0.
NextPixel ==
    /\ pixel # Unwritten
    /\ pixel' = Unwritten
    /\ pixel_color' = Vec3(0, 0, 0)
    /\ sample_s' = 0
    /\ shade' = NoCall
    /\ UNCHANGED <<renderVars, hitVars, parseVars, ompVars, materials, background, max_depth>>

ShadeNext ==
    \/ \E r \in CameraRays, rnds \in [1 .. max_depth -> InUnitSphere] : Sample(r, rnds)
    \/ StorePixel
    \/ NextPixel

ShadeSpec == ShadeInit /\ [][ShadeNext]_vars

(***************************************************************************)
(* Claims about materials, ray_color and the stored pixel.                 *)
(***************************************************************************)
\* C15 as stated: whatever second argument the Metal constructor was given
\* (negative and above 1 included), the fuzz it stored lies in [0, 1].
C15_FuzzInUnitInterval ==
    \A m \in DOMAIN materials :
       materials[m].kind = "metal" =>
          /\ Le(Num(0), materials[m].fuzz)
          /\ Le(materials[m].fuzz, Num(1))

\* The calls of scatter the last ray_color made, outermost first: the
\* material, the incoming ray, the hit record, the accepted random point and
\* what scatter gave back.
RECURSIVE ScatterCalls(_, _, _)
ScatterCallsAfter_twice(m, r, h, p, sc, depth, rnds) ==
    <<[mat |-> m, r_in |-> r, rec |-> h, p |-> p, out |-> sc],
      [mat |-> m, r_in |-> r, rec |-> h, p |-> p, out |-> sc]>>
       \o (IF sc.ret THEN ScatterCalls(sc.scattered, depth - 1, Tail(rnds)) ELSE << >>)
ScatterCallsAfter(m, r, h, p, sc, depth, rnds) ==
    <<[mat |-> m, r_in |-> r, rec |-> h, p |-> p, out |-> sc]>>
       \o (IF sc.ret THEN ScatterCalls(sc.scattered, depth - 1, Tail(rnds)) ELSE << >>)
ScatterCallsHit(r, res, depth, rnds) ==
    IF ~res.hit THEN << >>
    ELSE ScatterCallsAfter(materials[res.rec.mat_ptr], r, res.rec, Head(rnds),
             MaterialScatter(materials[res.rec.mat_ptr], r, res.rec, Head(rnds)),
             depth, rnds)
ScatterCalls(r, depth, rnds) ==
    IF depth <= 0 THEN << >>
    ELSE ScatterCallsHit(r, SceneHit(SceneOf(objects), r, Frac(1, 1000), infinity,
                                     NewHitRecord), depth, rnds)
\* The number of times the last ray_color asked world.hit: once per entry
\* that passes the depth test.
RECURSIVE Intersections(_, _, _)
IntersectionsAfter(sc, depth, rnds) ==
    1 + (IF sc.ret THEN Intersections(sc.scattered, depth - 1, Tail(rnds)) ELSE 0)
IntersectionsHit(r, res, depth, rnds) ==
    IF ~res.hit THEN 1
    ELSE IntersectionsAfter(
             MaterialScatter(materials[res.rec.mat_ptr], r, res.rec, Head(rnds)),
             depth, rnds)
Intersections(r, depth, rnds) ==
    IF depth <= 0 THEN 0
    ELSE IntersectionsHit(r, SceneHit(SceneOf(objects), r, Frac(1, 1000), infinity,
                                      NewHitRecord), depth, rnds)
LastScatterCalls ==
    IF shade = NoCall THEN << >> ELSE ScatterCalls(shade.r, max_depth, shade.rnds)

\* The rays ray_color was entered with, outermost first: the camera ray r,
\* then every ray a scatter of `calls` handed on.
RaysOf(r, calls) ==
    <<r>> \o [k \in { n \in DOMAIN calls : calls[n].out.ret } |-> calls[k].out.scattered]

\* The four cases of C12 for ray r at the given depth: `value` is what
\* ray_color returned for r, the value of the recursive call is ray_color's.
C12_Cases(value, r, depth, rnds) ==
    \A res \in {SceneHit(SceneOf(objects), r, Frac(1, 1000), infinity, NewHitRecord)} :
       IF depth = 0 THEN value = Color(Num(0), Num(0), Num(0))
       ELSE IF ~res.hit THEN value = background
       ELSE \A m \in {materials[res.rec.mat_ptr]} :
            \A sc \in {MaterialScatter(m, r, res.rec, Head(rnds))} :
               IF ~sc.ret THEN value = MaterialEmit(m, res.rec.p)
               ELSE value =
                       VAdd(MaterialEmit(m, res.rec.p),
                            VMul(sc.attenuation,
                                 ray_color(sc.scattered, SceneOf(objects), depth - 1,
                                           background, Tail(rnds))))

\* C12: ray_color returns black at depth 0; otherwise the background when
\* nothing is hit on [0.001, +inf]; otherwise the emitted colour when scatter
\* absorbs; otherwise emitted + attenuation (*) ray_color(scattered, depth-1).
\* Checked for the camera ray of the last sample and for every nested call.
C12_RayColorCases ==
    shade # NoCall =>
       \A rays \in {RaysOf(shade.r, LastScatterCalls)} :
          \A k \in DOMAIN rays :
             C12_Cases(IF k = 1 THEN shade.color
                       ELSE ray_color(rays[k], SceneOf(objects), max_depth - (k - 1),
                                      background, SubSeq(shade.rnds, k, max_depth)),
                       rays[k], max_depth - (k - 1), SubSeq(shade.rnds, k, max_depth))

\* C12 witness: a sample whose camera ray was scattered by the matte plane
\* into the light: the fourth case outside, the third inside.
C12_Witness ==
    /\ shade # NoCall
    /\ max_depth = 2
    /\ shade.color = Color(Frac(15, 2), Frac(15, 2), Frac(15, 2))
    /\ \E calls \in {LastScatterCalls} :
          /\ Len(calls) = 2
          /\ calls[1].mat.kind = "matte" /\ calls[1].out.ret
          /\ calls[2].mat.kind = "light" /\ ~calls[2].out.ret

\* C20: Matte::scatter always scatters, the attenuation is the albedo, the
\* scattered ray starts at the hit point, its direction is never the zero
\* vector, and it is the normal when normal + random unit vector has a
\* squared length below 1e-8.
C20_MatteAlwaysScatters ==
    \A calls \in {LastScatterCalls} : \A k \in DOMAIN calls : \A c \in {calls[k]} :
           c.mat.kind = "matte" =>
              /\ c.out.ret
              /\ c.out.attenuation = c.mat.albedo
              /\ c.out.scattered.orig = c.rec.p
              /\ c.out.scattered.dir # Vec3(0, 0, 0)
              /\ Lt(length_squared(VAdd(c.rec.normal, unit_vector(c.p))),
                    Frac(1, 100000000))
                    => c.out.scattered.dir = c.rec.normal

\* C20 witness: the random unit vector was exactly opposite the normal and
\* the scattered ray left along the normal.
C20_Witness ==
    \E calls \in {LastScatterCalls} : \E k \in DOMAIN calls : \E c \in {calls[k]} :
           /\ c.mat.kind = "matte"
           /\ c.rec.normal = Vec3(0, 0, 1)
           /\ unit_vector(c.p) = Vec3(0, 0, -1)
           /\ c.out.scattered = Ray(c.rec.p, Vec3(0, 0, 1))

\* scale * the sum of the samples, channel n: the averaged channel.
Averaged(n) == Mul(pixel_color[n], Scale(samples_per_pixel))

\* Tone mapping of a non-negative channel x as the specification words it:
\* the square root, clamped to [0, 0.999], times 256, truncated.
ToneMap(x) ==
    LET y == Mul(Num(256), clamp(Sqrt(x), Num(0), Frac(999, 1000)))
    IN  y[1] \div y[2]

\* C18 as stated: every channel stored is an integer of 0..255; an averaged
\* channel of 0 is stored as 0 and one of 1 or more as 255.
C18_ChannelsAreBytes ==
    pixel # Unwritten =>
       \A n \in 1 .. 3 :
          /\ pixel[n] \in 0 .. 255
          /\ Averaged(n) = Num(0) => pixel[n] = 0
          /\ Le(Num(1), Averaged(n)) => pixel[n] = 255

\* C18 with at least one sample per pixel and no negative emission (holds).
NonNegativeEmission ==
    \A m \in DOMAIN materials :
       materials[m].kind = "light" =>
          \A n \in 1 .. 3 : Le(Num(0), materials[m].emit_color[n])
C18_ChannelsAreBytes_ValidInputs ==
    (samples_per_pixel >= 1 /\ NonNegativeEmission) => C18_ChannelsAreBytes

\* C13 as stated: in a scene without primitives Scene::hit reports no hit for
\* every ray and interval, ray_color returns the background for every ray at
\* depth >= 1, and every pixel stored is the tone-mapped background.
C13_EmptySceneIsBackground ==
    objects = << >> =>
       /\ \A r \in Rays \cup CameraRays, iv \in Intervals :
             ~SceneHit(SceneOf(objects), r, iv[1], iv[2], NewHitRecord).hit
       /\ (shade # NoCall /\ max_depth >= 1) => shade.color = background
       /\ (pixel # Unwritten /\ max_depth >= 1) =>
             pixel = <<ToneMap(background[1]), ToneMap(background[2]),
                       ToneMap(background[3])>>

\* C13 with at least one sample per pixel (holds).
C13_EmptySceneIsBackground_PositiveSamples ==
    samples_per_pixel >= 1 => C13_EmptySceneIsBackground

\* The materials that are the light of emission (15,15,15).
BrightLights == { m \in DOMAIN materials : materials[m] = PointLight(Bright) }

\* C14: the emissive material never scatters and emits its configured colour,
\* every other material emits black; ray_color of a camera ray whose nearest
\* hit is emissive is the emission colour at every depth >= 1; and a pixel all
\* of whose camera rays hit the (15,15,15) light first is stored as
\* (255,255,255), whatever the number of samples.
C14_EmissiveSaturates ==
    /\ \A calls \in {LastScatterCalls} :
          /\ \A k \in DOMAIN calls : \A c \in {calls[k]} :
                /\ c.mat.kind = "light" =>
                      ~c.out.ret /\ MaterialEmit(c.mat, c.rec.p) = c.mat.emit_color
                /\ c.mat.kind # "light" =>
                      MaterialEmit(c.mat, c.rec.p) = Color(Num(0), Num(0), Num(0))
          /\ (calls # << >> /\ calls[1].mat.kind = "light") =>
                shade.color = calls[1].mat.emit_color
    /\ (pixel # Unwritten /\ shade # NoCall /\ shade.first_hits \subseteq BrightLights) =>
          pixel = <<255, 255, 255>>

\* C14 witness: a pixel whose camera rays all hit the (15,15,15) sphere has
\* been stored.
C14_Witness ==
    /\ pixel = <<255, 255, 255>>
    /\ shade # NoCall
    /\ sample_s = samples_per_pixel
    /\ shade.first_hits = {"m2"}
    /\ materials["m2"] = PointLight(Bright)
    /\ shade.color = Bright

\* C21 as stated: Metal::scatter reports absorbed exactly when the perturbed
\* direction r + fuzz * s has direction . normal <= 0, r being the reflection
\* d - 2(d.n)n of the unit incoming direction d; with fuzz = 0 the scattered
\* direction is r.
C21_MetalAbsorbsIffInward ==
    \A calls \in {LastScatterCalls} : \A k \in DOMAIN calls : \A c \in {calls[k]} :
       c.mat.kind = "metal" =>
          \A r \in {reflect(unit_vector(c.r_in.dir), c.rec.normal)} :
             /\ c.out.scattered.dir = VAdd(r, VScale(c.mat.fuzz, c.p))
             /\ ~c.out.ret <=> Le(dot(c.out.scattered.dir, c.rec.normal), Num(0))
             /\ c.mat.fuzz = Num(0) => c.out.scattered.dir = r

\* C21 for incoming rays whose direction has finite components (holds).
FiniteVec(v) == \A n \in 1 .. 3 : v[n][2] # 0
C21_MetalAbsorbsIffInward_FiniteRays ==
    \A calls \in {LastScatterCalls} :
       (\A k \in DOMAIN calls : FiniteVec(calls[k].r_in.dir)) => C21_MetalAbsorbsIffInward

\* The member objects[k] asked by itself for the ray of the last call on
\* the interval [lo, hi].
\* What each member reports when asked by itself, with its place in the list.
AloneResults == { [k |-> k, res |-> Alone(k)] : k \in DOMAIN objects }
AloneOn(k, lo, hi) == Hit(objects[k], call.r, lo, hi, NewHitRecord)

\* C22 as stated: every primitive reports only intersections with t strictly
\* inside the interval; t = t_min and t = t_max are never reported.
C22_StrictlyInside ==
    call # NoCall =>
       \A k \in HitsAlone : \A t \in {Alone(k).rec.t} :
          Lt(call.t_min, t) /\ Lt(t, call.t_max)

\* C22 amended: a primitive rejects t < t_min and t > t_max only; the
\* intersection it reports is reported again on the interval that starts at
\* its t and on the interval that ends at its t.
C22_EndpointsAccepted ==
    call # NoCall =>
       \A a \in AloneResults : \A t \in {a.res.rec.t} :
          a.res.hit =>
             /\ ~Lt(t, call.t_min) /\ ~Lt(call.t_max, t)
             /\ \A lower \in {AloneOn(a.k, t, call.t_max)} :
                   lower.hit /\ lower.rec.t = t
             /\ \A upper \in {AloneOn(a.k, call.t_min, t)} :
                   upper.hit /\ upper.rec.t = t

\* C22 witness: on [2, 4] one member reports t = 2 = t_min and another
\* reports t = 4 = t_max.
C22_Witness ==
    /\ call # NoCall
    /\ call.t_min = Num(2) /\ call.t_max = Num(4)
    /\ \E k \in HitsAlone : Alone(k).rec.t = call.t_min
    /\ \E k \in HitsAlone : Alone(k).rec.t = call.t_max

\* The members that by themselves hit at parameter t, and the last of a set
\* of list positions.
HitsAt(t) == { k \in HitsAlone : Alone(k).rec.t = t }

\* C23: when two or more members hit the ray at exactly the same t and no
\* member hits at a smaller one, Scene::hit returns the record (t, p, normal,
\* front_face, material) of the one that stands latest in the list.
C23_TiesGoToLatest ==
    call # NoCall =>
       \A all \in {AloneResults} : \A a \in all :
          ( /\ a.res.hit
            /\ \A b \in all : b.res.hit => Le(a.res.rec.t, b.res.rec.t)
            /\ \E b \in all : b.k < a.k /\ b.res.hit /\ b.res.rec.t = a.res.rec.t
            /\ \A b \in all : (b.res.hit /\ b.res.rec.t = a.res.rec.t) => b.k <= a.k )
          => ret /\ rec = a.res.rec

\* C23 witness: the far side of the sphere and the parallelogram are both hit
\* at t = 2, with different front_face and material, and the scene has
\* answered with the record of the second member.
C23_Witness ==
    /\ call # NoCall /\ ret
    /\ Len(objects) = 2
    /\ HitsAt(Num(2)) = {1, 2}
    /\ Alone(1).rec # Alone(2).rec
    /\ Alone(1).rec.mat_ptr # Alone(2).rec.mat_ptr
    /\ rec = Alone(2).rec

\* A caller's record that already holds values, to see what a call leaves.
UsedRecord ==
    [p |-> Vec3(7, 7, 7), normal |-> Vec3(0, 1, 0), t |-> Num(9),
     front_face |-> TRUE, mat_ptr |-> "m0"]

\* C27: when hit returns false the caller's record is exactly as it was, for
\* every member asked by itself and for the scene, whether the record was
\* fresh or already held values.
C27_MissLeavesRecord ==
    call # NoCall =>
       /\ ~ret => rec = NewHitRecord
       /\ \A k \in DOMAIN objects :
             \A res \in {Hit(objects[k], call.r, call.t_min, call.t_max, UsedRecord)} :
                ~res.hit => res.rec = UsedRecord
       /\ \A res \in {SceneHit(SceneOf(objects), call.r, call.t_min, call.t_max,
                               UsedRecord)} :
             ~res.hit => res.rec = UsedRecord

\* C27 witness: the ray down the z axis has met the plane of a parallelogram
\* within the interval at t = 3, outside the parallelogram, and the call has
\* reported no hit on a record left as it was.
C27_Witness ==
    /\ call # NoCall /\ ~ret /\ rec = NewHitRecord
    /\ call.r.dir = Vec3(0, 0, -1) /\ call.t_min = Num(2)
    /\ Len(objects) = 1 /\ objects[1].kind = "parallelogram"
    /\ objects[1].Q = Vec3(1, 1, -3)
    /\ Hit(objects[1], call.r, call.t_min, call.t_max, UsedRecord).rec = UsedRecord

\* The pixels <<i, j>> worker t has stored so far.
WritesOf(t) ==
    UNION { { <<w[2], w[3]>> : w \in { v \in SeqToSet(writes[x]) : v[1] = t } } :
            x \in DOMAIN writes }

\* The block a row belongs to, counted from the top row H-1 in steps of B.
BlockOfRow(j) == (image_height - 1 - j) \div block_size

\* Pixel <<i2, j2>> comes before pixel <<i, j>> in the order of one worker.
WrittenBefore(i2, j2, i, j) ==
    \/ BlockOfRow(j2) < BlockOfRow(j)
    \/ BlockOfRow(j2) = BlockOfRow(j) /\ j2 > j
    \/ j2 = j /\ i2 < i

\* The store a step makes, if any, keeps the order of the worker that makes it.
OrderedStore(x) ==
    writes'[x] # writes[x] =>
       \A w \in {writes'[x][Len(writes'[x])]} : \A done \in {WritesOf(w[1])} :
          /\ \A b \in done : WrittenBefore(b[1], b[2], w[2], w[3])
          /\ w[2] = 0 \/ <<w[2] - 1, w[3]>> \in done
          /\ w[2] = 0 => \A b \in done : <<image_width - 1, b[2]>> \in done

\* C24: each worker stores its pixels in a fixed order: blocks in increasing
\* block number, within a block the rows from the largest j down, within a row
\* i = 0, 1, ..., W-1, and it starts no row before the previous one is complete.
C24_WorkerWriteOrder == [][\A x \in DOMAIN writes : OrderedStore(x)]_vars

\* C24 witness: one worker with blocks of two rows has finished an image of
\* three rows and two columns, so it went through two blocks, two rows of one
\* block and two columns of each row.
C24_Witness ==
    /\ AllDone
    /\ num_threads = 1 /\ block_size = 2 /\ image_height = 3 /\ image_width = 2
    /\ WritesOf(0) = (0 .. 1) \X (0 .. 2)

\* The framebuffer cells of worker t: the pixels of the rows of its blocks.
OwnCells(t) ==
    { (image_height - 1 - bj[2]) * image_width + i :
         bj \in ClaimedBlockRows(t), i \in 0 .. (image_width - 1) }

\* Worker t takes this step.
Moves(t) == <<pc[t], block_idx[t], row_j[t], col_i[t]>>
               # <<pc'[t], block_idx'[t], row_j'[t], col_i'[t]>>

\* A step changes neither the parameters of the call, nor the scene and its
\* materials, nor the background colour, and stores only into cells of the
\* worker that takes it.
SceneAndOthersCellsKept ==
    /\ UNCHANGED <<paramVars, objects, materials, background, max_depth>>
    /\ \A x \in DOMAIN pixel_buffer :
          pixel_buffer'[x] # pixel_buffer[x] =>
             \E t \in Workers : Moves(t) /\ x \in OwnCells(t)

\* C25: during a render a worker changes nothing but its own framebuffer cells
\* and the progress counter: scene, parameters and background stay as they
\* are, and nothing is written to a stream.
C25_WorkerFrame == [][SceneAndOthersCellsKept /\ cerr' = cerr]_vars

\* C25, apart from I/O: what a worker changes besides its own cells and the
\* counter is the progress line it writes to std::cerr, one per increment.
C25_WorkerFrame_ApartFromStderr ==
    [][ /\ SceneAndOthersCellsKept
        /\ \/ cerr' = cerr /\ completed_lines' = completed_lines
           \/ /\ completed_lines' = completed_lines + 1
              /\ cerr' = Append(cerr, <<completed_lines', image_height>>) ]_vars

\* C26: for every depth, negative ones included, ray_color returns (black when
\* depth <= 0), and one call asks the scene at most max(depth, 0) times and
\* calls scatter at most max(depth, 0) times.  Checked on the camera ray and
\* the random points of the last sample, at depth -2, -1, 0 and max_depth.
C26_BoundedWork ==
    shade # NoCall =>
       \A depth \in {-2, -1, 0, max_depth} :
          /\ Len(ScatterCalls(shade.r, depth, shade.rnds)) <= Max(depth, 0)
          /\ Intersections(shade.r, depth, shade.rnds) <= Max(depth, 0)
          /\ depth = max_depth => Len(shade.color) = 3
          /\ depth <= 0 =>
                ray_color(shade.r, SceneOf(objects), depth, background, shade.rnds)
                   = Color(Num(0), Num(0), Num(0))

\* C26 witness: a sample at depth 2 that used both: two intersections and two
\* calls of scatter, the second of which scattered again.
C26_Witness ==
    /\ shade # NoCall /\ max_depth = 2
    /\ Intersections(shade.r, max_depth, shade.rnds) = 2
    /\ Len(LastScatterCalls) = 2
    /\ LastScatterCalls[2].out.ret

\* The primitives of a list, those inside a parallelepiped included.
RECURSIVE Primitives(_)
Primitives(objs) ==
    IF objs = << >> THEN {}
    ELSE (IF Head(objs).kind = "scene" THEN Primitives(Head(objs).objects)
          ELSE {Head(objs)}) \cup Primitives(Tail(objs))

\* C28: every primitive in the scene is bound to a material, whatever the
\* material type of the parsed object it was converted from, and every hit
\* record the scene returns carries a material handle that is not null.
C28_EveryPrimitiveHasMaterial ==
    /\ \A o \in Primitives(objects) : o.mat_ptr # "null"
    /\ (call # NoCall /\ ret) => rec.mat_ptr # "null"

\* C28 for scenes whose primitives all have a material: every hit record
\* carries the handle of the primitive hit, which is not null.
C28_EveryPrimitiveHasMaterial_KnownTypes ==
    (\A o \in Primitives(objects) : o.mat_ptr # "null") =>
       ((call # NoCall /\ ret) =>
           /\ rec.mat_ptr # "null"
           /\ \E o \in Primitives(objects) : o.mat_ptr = rec.mat_ptr)

(***************************************************************************)
(* SceneXMLParser::parseString: one action per tag the loop hands on.  A    *)
(* tag is the record [name, attrs] that the split at the first space and    *)
(* parseAttributes make of its text.                                        *)
(***************************************************************************)
MaxTags == 5

StartTags ==
    { [name |-> "object", attrs |-> {<<"id", "s1">>, <<"type", "sphere">>}],
      [name |-> "material", attrs |-> {<<"type", "matte">>}],
      [name |-> "camera", attrs |-> {<<"type", "perspective">>}],
      [name |-> "global_settings", attrs |-> {}] }

SelfClosingTags ==
    { [name |-> "position", attrs |-> {<<"x", "0">>, <<"y", "0">>, <<"z", "-3">>}],
      [name |-> "color", attrs |-> {<<"r", "128">>, <<"g", "128">>, <<"b", "128">>}] }

ParseInit == RenderIdle /\ HitIdle /\ ShadeIdle /\ ParseIdle /\ OmpIdle

\* The innermost element still open.
Innermost == open_elements[Len(open_elements)]
WithoutInnermost == SubSeq(open_elements, 1, Len(open_elements) - 1)
ObjectOpen == \E n \in DOMAIN open_elements : open_elements[n].name = "object"

\* processStartTag
processStartTag(tag) ==
    /\ tags_read < MaxTags
    /\ tags_read' = tags_read + 1
    /\ m_currentParentTag' = tag.name
    /\ m_currentGlobal' =
          IF tag.name = "global_settings" THEN GlobalSettings ELSE m_currentGlobal
    /\ m_currentObject' =
          IF tag.name = "object"
          THEN [SceneObject EXCEPT !.id = AttrGet(tag.attrs, "id"),
                                   !.type = AttrGet(tag.attrs, "type")]
          ELSE m_currentObject
    /\ m_currentCamera' =
          IF tag.name = "camera"
          THEN [Camera EXCEPT !.id = AttrGet(tag.attrs, "id"),
                              !.type = AttrGet(tag.attrs, "type")]
          ELSE m_currentCamera
    /\ m_currentMaterial' =
          IF tag.name = "material"
          THEN [MaterialObject EXCEPT !.type = AttrGet(tag.attrs, "type")]
          ELSE m_currentMaterial
    /\ open_elements' =
          Append(open_elements, [name |-> tag.name, properties |-> {}, inner |-> FALSE])
    /\ late_property' = (late_property \/ (tag.name = "object" /\ ObjectOpen))
    /\ UNCHANGED <<m_sceneData, closed_objects, renderVars, hitVars, shadeVars, ompVars>>

\* processEndTag, for the end tag of the innermost open element.
processEndTag(tagName) ==
    /\ tags_read < MaxTags
    /\ open_elements # << >> /\ Innermost.name = tagName
    /\ tags_read' = tags_read + 1
    /\ m_sceneData' =
          IF tagName = "global_settings"
          THEN [m_sceneData EXCEPT !.global_settings = m_currentGlobal]
          ELSE IF tagName = "object"
          THEN [m_sceneData EXCEPT !.objects = Append(@, m_currentObject)]
          ELSE IF tagName = "camera"
          THEN [m_sceneData EXCEPT !.camera = m_currentCamera]
          ELSE m_sceneData
    /\ m_currentObject' =
          IF tagName = "object" THEN SceneObject
          ELSE IF tagName = "material"
          THEN [m_currentObject EXCEPT !.material = m_currentMaterial]
          ELSE m_currentObject
    /\ m_currentCamera' = IF tagName = "camera" THEN Camera ELSE m_currentCamera
    /\ m_currentMaterial' =
          IF tagName = "material" THEN MaterialObject ELSE m_currentMaterial
    /\ m_currentParentTag' = ""
    /\ closed_objects' =
          IF tagName = "object" THEN Append(closed_objects, Innermost.properties)
          ELSE closed_objects
    /\ open_elements' =
          IF Len(open_elements) = 1 THEN << >>
          ELSE [WithoutInnermost EXCEPT ![Len(open_elements) - 1].inner = TRUE]
    /\ UNCHANGED <<m_currentGlobal, late_property, renderVars, hitVars, shadeVars, ompVars>>

\* processSelfClosingTag
processSelfClosingTag(tag) ==
    /\ tags_read < MaxTags
    /\ tags_read' = tags_read + 1
    /\ m_currentMaterial' =
          IF m_currentParentTag = "material"
          THEN [m_currentMaterial EXCEPT !.properties = Put(@, tag.name, tag.attrs)]
          ELSE m_currentMaterial
    /\ m_currentGlobal' =
          IF m_currentParentTag = "global_settings"
          THEN [m_currentGlobal EXCEPT !.properties = Put(@, tag.name, tag.attrs)]
          ELSE m_currentGlobal
    /\ m_currentObject' =
          IF m_currentParentTag = "object"
          THEN [m_currentObject EXCEPT !.properties = Put(@, tag.name, tag.attrs)]
          ELSE m_currentObject
    /\ m_currentCamera' =
          IF m_currentParentTag = "camera"
          THEN [m_currentCamera EXCEPT !.properties = Put(@, tag.name, tag.attrs)]
          ELSE m_currentCamera
    /\ open_elements' =
          IF open_elements = << >> THEN open_elements
          ELSE [open_elements EXCEPT ![Len(open_elements)].properties =
                                        Put(@, tag.name, tag.attrs)]
    /\ late_property' = (late_property \/ (open_elements # << >> /\ Innermost.inner))
    /\ UNCHANGED <<m_sceneData, m_currentParentTag, closed_objects,
                   renderVars, hitVars, shadeVars, ompVars>>

ParseNext ==
    \/ \E tag \in StartTags : processStartTag(tag)
    \/ \E tag \in StartTags : processEndTag(tag.name)
    \/ \E tag \in SelfClosingTags : processSelfClosingTag(tag)

ParseSpec == ParseInit /\ [][ParseNext]_vars

\* C29: every object parseString has stored holds exactly the property tags
\* read while its element was the innermost one open, whether they came before
\* or after an element nested in it.
C29_PropertiesAttached ==
    /\ Len(m_sceneData.objects) = Len(closed_objects)
    /\ \A k \in DOMAIN closed_objects :
          m_sceneData.objects[k].properties = closed_objects[k]

\* C29 as far as it holds: as long as no property tag has followed the end of
\* an element nested in its parent and no object has started inside an
\* object, every stored object holds its property tags.
C29_PropertiesAttached_BeforeNested ==
    ~late_property => C29_PropertiesAttached

(***************************************************************************)
(* render_omp: the parallel region, its loop over the rows under            *)
(* schedule(dynamic, 32), and the two master blocks.  One action is one     *)
(* turn of the row loop.  Thread t of the team has omp_get_thread_num() = t.*)
(* The calls into the GUI (progress bar, Fl::check) are not modelled.       *)
(***************************************************************************)
MaxOmpHeight == 33

\* schedule(dynamic, 32)
OmpChunk == 32

\* size_t idx = j * image_width + i
OmpIndex_roundRobin(i, j) == (image_height - 1 - j) * image_width + i
OmpIndex(i, j) == j * image_width + i

\* int original_j = image_height - 1 - j
original_j(j) == image_height - 1 - j

Min(a, b) == IF a < b THEN a ELSE b

\* The parallel region is entered by a team of num_threads threads.  The
\* rows are rendered with no samples; the sample loop is that of WritePixel.
OmpInit ==
    /\ HitIdle /\ ShadeIdle /\ ParseIdle /\ OmpIdle
    /\ num_threads \in 1 .. MaxThreads
    /\ block_size = 1
    /\ image_width \in 0 .. MaxWidth
    /\ image_height \in 0 .. MaxOmpHeight
    /\ samples_per_pixel = 0
    /\ pc = [t \in ThreadIds |-> IF t < num_threads THEN "start" ELSE "absent"]
    /\ block_idx = [t \in ThreadIds |-> 0]
    /\ row_j = [t \in ThreadIds |-> 0]
    /\ col_i = [t \in ThreadIds |-> 0]
    /\ pixel_buffer = [x \in 0 .. (image_width * image_height - 1) |-> Unwritten]
    /\ completed_lines = 0
    /\ cerr = << >>
    /\ generator = [s \in ThreadIds |-> Uninit]
    /\ seed = [s \in ThreadIds |-> Uninit]
    /\ rng_access = [o \in ({"generator", "distribution"} \X ThreadIds) |-> {}]
    /\ writes = [x \in 0 .. (image_width * image_height - 1) |-> << >>]
    /\ oob_write = FALSE
    /\ rows_done = [t \in ThreadIds |-> << >>]

\* Entry of the region; `omp master`: thread 0 writes the first progress line.
OmpEnter(t) ==
    /\ pc[t] = "start"
    /\ pc' = [pc EXCEPT ![t] = "chunk"]
    /\ cerr' = IF t = 0 THEN Append(cerr, <<0, image_height>>) ELSE cerr
    /\ UNCHANGED <<paramVars, block_idx, row_j, col_i, pixel_buffer, completed_lines,
                   rngVars, ghostVars, hitVars, shadeVars, parseVars, ompVars>>

\* The thread asks the loop for work: the next chunk of at most 32 rows, or
\* none, and then it waits at the barrier that ends the loop.
OmpTakeChunk(t) ==
    /\ pc[t] = "chunk"
    /\ IF omp_next < image_height
       THEN /\ omp_j' = [omp_j EXCEPT ![t] = omp_next]
            /\ omp_end' = [omp_end EXCEPT ![t] = Min(image_height, omp_next + OmpChunk)]
            /\ omp_next' = Min(image_height, omp_next + OmpChunk)
            /\ pc' = [pc EXCEPT ![t] = "row"]
       ELSE /\ pc' = [pc EXCEPT ![t] = "barrier"]
            /\ UNCHANGED ompVars
    /\ UNCHANGED <<paramVars, block_idx, row_j, col_i, sharedVars, rngVars, ghostVars,
                   hitVars, shadeVars, parseVars>>

\* The cells row j stores into.
OmpRowCells(j) == { OmpIndex(i, j) : i \in 0 .. (image_width - 1) }

\* The body of the row loop for j = omp_j[t]: the pixels i = 0 .. W-1 of image
\* row original_j, each stored at idx; then fetch_add, the progress line if
\* this is thread 0 and the count calls for one, and ++j.
OmpRow(t, entropy) ==
    /\ pc[t] = "row"
    /\ LET j == omp_j[t]
           slot == GeneratorSlot(t)
           draws == samples_per_pixel > 0 /\ image_width > 0
           fresh == draws /\ generator[slot] = Uninit
           sd == entropy + t
           g0 == IF fresh THEN MtSeed(sd) ELSE generator[slot]
           per == samples_per_pixel * DrawsPerSample
           cells == OmpRowCells(j) \cap DOMAIN pixel_buffer
       IN  /\ generator' = [generator EXCEPT ![slot] = MtAdvance(g0, image_width * per)]
           /\ seed' = IF fresh THEN [seed EXCEPT ![slot] = sd] ELSE seed
           /\ rng_access' =
                 IF draws
                 THEN [o \in DOMAIN rng_access |->
                          IF o \in RandomObjects(t) THEN rng_access[o] \cup {t}
                          ELSE rng_access[o]]
                 ELSE rng_access
           /\ pixel_buffer' =
                 [x \in DOMAIN pixel_buffer |->
                    IF x \in cells
                    THEN SampleLoop(MtAdvance(g0, (x - OmpIndex(0, j)) * per),
                                    x - OmpIndex(0, j), original_j(j), 0).samples
                    ELSE pixel_buffer[x]]
           /\ writes' =
                 [x \in DOMAIN writes |->
                    IF x \in cells
                    THEN Append(writes[x], <<t, x - OmpIndex(0, j), original_j(j)>>)
                    ELSE writes[x]]
           /\ oob_write' = (oob_write \/ OmpRowCells(j) # cells)
           /\ completed_lines' = completed_lines + 1
           /\ cerr' =
                 IF (completed_lines % 10 = 0 \/ completed_lines = image_height) /\ t = 0
                 THEN Append(cerr, <<completed_lines, image_height>>)
                 ELSE cerr
           /\ rows_done' = [rows_done EXCEPT ![t] = Append(@, <<j \div OmpChunk, j>>)]
           /\ omp_j' = [omp_j EXCEPT ![t] = j + 1]
           /\ pc' = [pc EXCEPT ![t] = IF j + 1 < omp_end[t] THEN "row" ELSE "chunk"]
    /\ UNCHANGED <<paramVars, block_idx, row_j, col_i, omp_next, omp_end,
                   hitVars, shadeVars, parseVars>>

\* The barrier at the end of the loop, then `omp master`: thread 0 writes the
\* last progress line; the region ends.
OmpLeave(t) ==
    /\ pc[t] = "barrier"
    /\ \A u \in Workers : pc[u] \in {"barrier", "done"}
    /\ pc' = [pc EXCEPT ![t] = "done"]
    /\ cerr' = IF t = 0 THEN Append(cerr, <<image_height, image_height>>) ELSE cerr
    /\ UNCHANGED <<paramVars, block_idx, row_j, col_i, pixel_buffer, completed_lines,
                   rngVars, ghostVars, hitVars, shadeVars, parseVars, ompVars>>

OmpStep(t) ==
    \/ OmpEnter(t)
    \/ OmpTakeChunk(t)
    \/ \E entropy \in RandomDevice(t) : OmpRow(t, entropy)
    \/ OmpLeave(t)

OmpNext == \E t \in ThreadIds : OmpStep(t)

OmpSpec == OmpInit /\ [][OmpNext]_vars

=============================================================================
